---- MODULE Spec2Model ----
(***************************************************************************)
(* Model of the sitef project-management backend: the projects resource in *)
(* its three variants (embedded store, hosted store, earlier hosted        *)
(* store), the in-memory rate limiter of POST /ai/complete, and the        *)
(* migration runner behind getDatabase.                                    *)
(*                                                                         *)
(* Strings are sequences of one-character strings, so that trim(), String()*)
(* Number() and parseInt() are computed the way the runtime computes them. *)
(***************************************************************************)
EXTENDS Integers, Sequences, FiniteSets, TLC

VARIABLES
    variant,            \* which projects route file is deployed
    skew,               \* API process clock minus database clock (ms)
    now,                \* database server clock (ms)
    projects,           \* the projects table: a set of rows
    seq,                \* last identifier handed out by the backend
    everIds,            \* history: the id of every row that existed before req ran
    req,                \* last projects request
    resp,               \* response to req
    before,             \* history: the projects table before req ran
    rateLimitBuckets,   \* identifier -> [count, windowStart] (absent: count 0)
    rlNow,              \* Date.now() of the rate-limited process (ms)
    admitted,           \* history: identifier -> times of admitted requests
    rlResp,             \* last answer of the rate-limited POST /ai/complete
    disk,               \* database file: [applied, effects, log]
    migrationFiles,     \* names present in the migrations directory
    proc,               \* the running process: pc, instance, cursor, ...
    server,             \* which server file runs the HTTP shell
    env,                \* its environment: CORS origin, configured credentials
    hreq,               \* last HTTP request to the shell, upstream behaviour included
    hresp,              \* response to hreq: status, headers, body, outbound calls
    ui,                 \* React state of the projects page
    inflight,           \* requests of the page that have not completed
    hist                \* history of the page: issued, failed, late

vars == <<variant, skew, now, projects, seq, everIds, req, resp,
          before, rateLimitBuckets, rlNow, admitted, rlResp, disk,
          migrationFiles, proc, server, env, hreq, hresp, ui, inflight,
          hist>>

projVars == <<variant, skew, now, projects, seq, everIds, req,
              resp, before>>
rateVars == <<rateLimitBuckets, rlNow, admitted, rlResp>>
migVars  == <<disk, migrationFiles, proc>>
shellVars == <<server, env, hreq, hresp>>
clientVars == <<ui, inflight, hist>>

-----------------------------------------------------------------------------
(* Bounds of the model *)

MaxSeq == 2
MaxClicks == 3
ClockStep == 500

-----------------------------------------------------------------------------
(* Strings *)

Range(sq) == {sq[i] : i \in 1..Len(sq)}

WhiteSpace == {" "}

RECURSIVE TrimStart(_)
TrimStart(s) ==
    IF s = <<>> THEN s
    ELSE IF Head(s) \in WhiteSpace THEN TrimStart(Tail(s)) ELSE s

RECURSIVE TrimEnd(_)
TrimEnd(s) ==
    IF s = <<>> THEN s
    ELSE IF s[Len(s)] \in WhiteSpace THEN TrimEnd(SubSeq(s, 1, Len(s) - 1))
    ELSE s

Trim(s) == TrimEnd(TrimStart(s))

Digits == {"0", "1", "2", "3", "4", "5", "6", "7", "8", "9"}

DigitVal(ch) ==
    CASE ch = "0" -> 0 [] ch = "1" -> 1 [] ch = "2" -> 2 [] ch = "3" -> 3
      [] ch = "4" -> 4 [] ch = "5" -> 5 [] ch = "6" -> 6 [] ch = "7" -> 7
      [] ch = "8" -> 8 [] ch = "9" -> 9

RECURSIVE DigitPrefix(_)
DigitPrefix(s) ==
    IF s = <<>> \/ Head(s) \notin Digits THEN <<>>
    ELSE <<Head(s)>> \o DigitPrefix(Tail(s))

RECURSIVE DecimalValue(_)
DecimalValue(ds) ==
    IF ds = <<>> THEN 0
    ELSE 10 * DecimalValue(SubSeq(ds, 1, Len(ds) - 1)) + DigitVal(ds[Len(ds)])

\* A JavaScript number, as far as the routes can tell numbers apart.
JsNaN == [kind |-> "nan", n |-> 0]
JsInt(n) == [kind |-> "int", n |-> n]
JsFrac(n) == [kind |-> "frac", n |-> n]      \* a non-integer whose floor is n

\* Number.parseInt(value, 10): leading blanks, a sign, the longest digit run.
ParseInt10(value) ==
    LET t == TrimStart(value)
        neg == t # <<>> /\ Head(t) = "-"
        u == IF t # <<>> /\ Head(t) \in {"-", "+"} THEN Tail(t) ELSE t
        ds == DigitPrefix(u)
    IN IF ds = <<>> THEN JsNaN
       ELSE JsInt(IF neg THEN 0 - DecimalValue(ds) ELSE DecimalValue(ds))

\* Number(value): the whole trimmed text must be a decimal literal.
ToNumber(value) ==
    LET t == Trim(value)
        neg == t # <<>> /\ Head(t) = "-"
        u == IF t # <<>> /\ Head(t) \in {"-", "+"} THEN Tail(t) ELSE t
        ds == DigitPrefix(u)
        rest == SubSeq(u, Len(ds) + 1, Len(u))
        fs == IF rest # <<>> /\ Head(rest) = "." THEN DigitPrefix(Tail(rest))
              ELSE <<>>
        mag == DecimalValue(ds)
    IN IF t = <<>> THEN JsInt(0)
       ELSE IF ds = <<>> THEN JsNaN
       ELSE IF rest = <<>> THEN JsInt(IF neg THEN 0 - mag ELSE mag)
       ELSE IF Head(rest) = "." /\ Len(fs) = Len(rest) - 1
            THEN IF DecimalValue(fs) = 0
                 THEN JsInt(IF neg THEN 0 - mag ELSE mag)
                 ELSE JsFrac(IF neg THEN 0 - mag - 1 ELSE mag)
       ELSE JsNaN

-----------------------------------------------------------------------------
(* JSON values and request bodies *)

\* A JSON value is its type and its text; undefined is an absent property.
Undefined == [t |-> "undefined", v |-> <<>>]
JNull == [t |-> "null", v |-> <<>>]
JStr(s) == [t |-> "string", v |-> s]
JNum(s) == [t |-> "number", v |-> s]
JBool(s) == [t |-> "boolean", v |-> s]

\* JavaScript truthiness of a JSON value.
Truthy(x) ==
    CASE x.t = "string" -> x.v # <<>>
      [] x.t = "number" -> x.v # <<"0">>
      [] x.t = "boolean" -> x.v = <<"t", "r", "u", "e">>
      [] OTHER -> FALSE

\* String(x) for a string, number or boolean.
ToStr(x) == x.v

\* What c.req.json() yields: a parse failure, null, a non-object value (a
\* number, a string, an array: none has a name property), or an object.
Malformed == [k |-> "malformed", name |-> Undefined]
NullBody == [k |-> "null", name |-> Undefined]
ScalarBody == [k |-> "scalar", name |-> Undefined]
Obj(name) == [k |-> "object", name |-> name]

\* Values of the name property in the requests of the model: absent, a
\* number, blank, and two names with and without surrounding blanks.
NameValues ==
    { Undefined, JNum(<<"7">>), JStr(<<" ">>), JStr(<<"a">>),
      JStr(<<" ", "b", " ">>) }

Bodies == {Malformed, NullBody} \cup {Obj(n) : n \in NameValues}

\* Path parameters: two ids the backend hands out, one it never does, and
\* digits followed by another character.
PathIds == { <<"1">>, <<"2">>, <<"9">>, <<"1", "x">> }

\* Whether the storage call of a request fails.  A handler calls the
\* storage only after it has accepted the body, so the failing calls of the
\* model carry one accepted body.
FailingBody == Obj(JStr(<<"a">>))

\* Texts of the error the storage reports when a call fails.
ErrTexts == {"database is locked", "permission denied for table projects"}
NoErr == ""

\* Outcome of the storage call of a request: it succeeds, or it fails with
\* one of the texts.
StorageOutcomes ==
    {[fail |-> FALSE, err |-> NoErr]}
        \cup {[fail |-> TRUE, err |-> e] : e \in ErrTexts}

BodiesWithFailure ==
    {[body |-> b, fail |-> FALSE, err |-> NoErr] : b \in Bodies}
        \cup {[body |-> FailingBody, fail |-> TRUE, err |-> e] : e \in ErrTexts}

NoId == <<>>
NoBody == [k |-> "none", name |-> Undefined]

-----------------------------------------------------------------------------
(* Rows, clocks and the storage backend *)

Variants == {"embedded", "hosted", "earlier"}

NoRow == [id |-> 0, name |-> <<>>, created_at |-> 0, updated_at |-> 0]

Ids(store) == {r.id : r \in store}
RowOf(store, id) ==
    IF id \in Ids(store) THEN CHOOSE r \in store : r.id = id ELSE NoRow

\* SQLite CURRENT_TIMESTAMP has a resolution of one second.
CurrentTimestamp(ms) == (ms \div 1000) * 1000

\* The hosted database's own clock, for column defaults.
HostedDbTime(ms) == ms

\* new Date().toISOString() in the API process.
ApiTime(ms, sk) == ms + sk

\* Identifier allocation of the backend: monotonically increasing.
NextRowId(seqno) == seqno + 1

\* Row produced by an INSERT that supplies only the name: id from the
\* backend, both timestamps from the column defaults.
InsertedRow(seqno, name, ts) ==
    [id |-> NextRowId(seqno), name |-> name, created_at |-> ts,
     updated_at |-> ts]

RECURSIVE SortAsc(_)
SortAsc(store) ==
    IF store = {} THEN <<>>
    ELSE LET m == CHOOSE r \in store : \A q \in store : r.id <= q.id
         IN <<m>> \o SortAsc(store \ {m})

RECURSIVE SortDesc(_)
SortDesc(store) ==
    IF store = {} THEN <<>>
    ELSE LET m == CHOOSE r \in store : \A q \in store : r.id >= q.id
         IN <<m>> \o SortDesc(store \ {m})

\* Result of a handler: the response and the storage state it leaves.
Result(status, row, list, store, seqno) ==
    [status |-> status, error |-> <<>>, row |-> row, list |-> list,
     store |-> store, seq |-> seqno]

\* An HTTPException, and any other thrown value (a TypeError, an error of
\* the database driver).  A message is the sequence of its parts.
HTTPException(status, message) ==
    [http |-> TRUE, status |-> status, message |-> message]
OtherError(text) == [http |-> FALSE, status |-> 0, message |-> <<text>>]

\* app.onError of the servers that mount the embedded and the hosted routes:
\* the status and the { error } body of the response.
onError(err) ==
    IF err.http THEN [status |-> err.status, error |-> err.message]
    ELSE [status |-> 500, error |-> <<"Internal Server Error">>]

\* app.onError of the server that mounts the earlier routes:
\* err.getResponse() answers the exception's status and message.
earlierOnError(err) ==
    IF err.http THEN [status |-> err.status, error |-> err.message]
    ELSE [status |-> 500, error |-> <<"server_error">>]

\* A handler that threw: the answer of the error handler, storage untouched.
Reject(answer, store, seqno) ==
    [status |-> answer.status, error |-> answer.error, row |-> NoRow,
     list |-> <<>>, store |-> store, seq |-> seqno]

\* throw new HTTPException(...) and a TypeError, under onError
Throw(status, text, store, seqno) ==
    Reject(onError(HTTPException(status, <<text>>)), store, seqno)
ThrowTypeError(store, seqno) ==
    Reject(onError(OtherError("TypeError")), store, seqno)

\* handleSupabaseError(error), under onError
handleSupabaseError(text, store, seqno) ==
    Reject(onError(HTTPException(500, <<"Supabase error: ", text>>)),
           store, seqno)

-----------------------------------------------------------------------------
(* Input validation shared by the embedded and the hosted routes *)

\* parseId: Number.parseInt, then Number.isInteger(id) && id > 0.
parseIdOk(value) ==
    LET id == ParseInt10(value) IN id.kind = "int" /\ id.n > 0
parseId(value) == ParseInt10(value).n

\* requireName: typeof input === 'string' && input.trim().length > 0.
requireNameOk(input) == input.t = "string" /\ Len(Trim(input.v)) # 0
requireName(input) == Trim(input.v)

-----------------------------------------------------------------------------------------------------------------------------------------------------
(* Embedded variant: routes over the file-backed database.  A request is   *)
(* [method, id, body, fail, err]; fail says the storage call throws, with  *)
(* an error whose text is err.                                             *)

\* a statement of the database driver throws: no HTTPException
DriverThrows(text, store, seqno) ==
    Reject(onError(OtherError(text)), store, seqno)

\* EmbeddedGet with the rows in descending order of id.
EmbeddedGet_Desc(store, seqno, r, dbms, apims) ==
    IF r.fail THEN DriverThrows(r.err, store, seqno)
    ELSE Result(200, NoRow, SortDesc(store), store, seqno)

EmbeddedGet(store, seqno, r, dbms, apims) ==
    IF r.fail THEN DriverThrows(r.err, store, seqno)
    ELSE Result(200, NoRow, SortAsc(store), store, seqno)

\* EmbeddedPost with the id computed from the number of stored rows.
EmbeddedPost_CountId(store, seqno, r, dbms, apims) ==
    IF r.body.k = "malformed"
    THEN Throw(400, "Invalid JSON payload", store, seqno)
    ELSE IF r.body.k = "null" THEN ThrowTypeError(store, seqno)
    ELSE IF ~requireNameOk(r.body.name)
         THEN Throw(400, "Name is required", store, seqno)
    ELSE IF r.fail THEN DriverThrows(r.err, store, seqno)
    ELSE LET row == InsertedRow(Cardinality(store), requireName(r.body.name),
                                CurrentTimestamp(dbms))
         IN Result(201, row, <<>>,
                   {q \in store : q.id # row.id} \cup {row}, row.id)

EmbeddedPost(store, seqno, r, dbms, apims) ==
    IF r.body.k = "malformed"
    THEN Throw(400, "Invalid JSON payload", store, seqno)
    \* (body as Record).name on null throws a TypeError: onError answers 500
    ELSE IF r.body.k = "null" THEN ThrowTypeError(store, seqno)
    ELSE IF ~requireNameOk(r.body.name)
         THEN Throw(400, "Name is required", store, seqno)
    ELSE IF r.fail THEN DriverThrows(r.err, store, seqno)
    ELSE LET row == InsertedRow(seqno, requireName(r.body.name),
                                CurrentTimestamp(dbms))
         IN Result(201, row, <<>>, store \cup {row}, row.id)

EmbeddedPatch(store, seqno, r, dbms, apims) ==
    IF ~parseIdOk(r.id) THEN Throw(400, "Invalid project id", store, seqno)
    ELSE IF r.body.k = "malformed"
         THEN Throw(400, "Invalid JSON payload", store, seqno)
    ELSE IF r.body.k = "null" THEN ThrowTypeError(store, seqno)
    ELSE IF r.body.name # Undefined /\ ~requireNameOk(r.body.name)
         THEN Throw(400, "Name is required", store, seqno)
    ELSE IF r.body.name = Undefined
         THEN Throw(400, "Nothing to update", store, seqno)
    ELSE IF r.fail THEN DriverThrows(r.err, store, seqno)
    ELSE LET id == parseId(r.id)
             old == RowOf(store, id)
             new == [old EXCEPT !.name = requireName(r.body.name),
                                !.updated_at = CurrentTimestamp(dbms)]
         IN IF id \notin Ids(store)
            THEN Throw(404, "Project not found", store, seqno)
            ELSE Result(200, new, <<>>, (store \ {old}) \cup {new}, seqno)

EmbeddedDelete(store, seqno, r, dbms, apims) ==
    IF ~parseIdOk(r.id) THEN Throw(400, "Invalid project id", store, seqno)
    ELSE IF r.fail THEN DriverThrows(r.err, store, seqno)
    ELSE LET id == parseId(r.id)
         IN IF id \notin Ids(store)
            THEN Throw(404, "Project not found", store, seqno)
            ELSE Result(204, NoRow, <<>>, store \ {RowOf(store, id)}, seqno)

-----------------------------------------------------------------------------
(* Hosted variant: routes over the hosted relational service.              *)

HostedGet(store, seqno, r, dbms, apims) ==
    IF r.fail THEN handleSupabaseError(r.err, store, seqno)
    ELSE Result(200, NoRow, SortAsc(store), store, seqno)

\* HostedPost with the name stored as it was sent.
HostedPost_NoTrim(store, seqno, r, dbms, apims) ==
    IF r.body.k = "malformed"
    THEN Throw(400, "Invalid JSON payload", store, seqno)
    ELSE IF r.body.k = "null" THEN ThrowTypeError(store, seqno)
    ELSE IF ~requireNameOk(r.body.name)
         THEN Throw(400, "Name is required", store, seqno)
    ELSE IF r.fail THEN handleSupabaseError(r.err, store, seqno)
    ELSE LET row == InsertedRow(seqno, r.body.name.v, HostedDbTime(dbms))
         IN Result(201, row, <<>>, store \cup {row}, row.id)

HostedPost(store, seqno, r, dbms, apims) ==
    IF r.body.k = "malformed"
    THEN Throw(400, "Invalid JSON payload", store, seqno)
    ELSE IF r.body.k = "null" THEN ThrowTypeError(store, seqno)
    ELSE IF ~requireNameOk(r.body.name)
         THEN Throw(400, "Name is required", store, seqno)
    ELSE IF r.fail THEN handleSupabaseError(r.err, store, seqno)
    ELSE LET row == InsertedRow(seqno, requireName(r.body.name),
                                HostedDbTime(dbms))
         IN Result(201, row, <<>>, store \cup {row}, row.id)

\* HostedPatch that writes the row anew, created_at included.
HostedPatch_NewRow(store, seqno, r, dbms, apims) ==
    IF ~parseIdOk(r.id) THEN Throw(400, "Invalid project id", store, seqno)
    ELSE IF r.body.k = "malformed"
         THEN Throw(400, "Invalid JSON payload", store, seqno)
    ELSE IF r.body.k = "null" THEN ThrowTypeError(store, seqno)
    ELSE IF r.body.name # Undefined /\ ~requireNameOk(r.body.name)
         THEN Throw(400, "Name is required", store, seqno)
    ELSE IF r.body.name = Undefined
         THEN Throw(400, "Nothing to update", store, seqno)
    ELSE IF r.fail THEN handleSupabaseError(r.err, store, seqno)
    ELSE LET id == parseId(r.id)
             old == RowOf(store, id)
             new == [old EXCEPT !.name = requireName(r.body.name),
                                !.created_at = apims,
                                !.updated_at = apims]
         IN IF id \notin Ids(store)
            THEN Throw(404, "Project not found", store, seqno)
            ELSE Result(200, new, <<>>, (store \ {old}) \cup {new}, seqno)

HostedPatch(store, seqno, r, dbms, apims) ==
    IF ~parseIdOk(r.id) THEN Throw(400, "Invalid project id", store, seqno)
    ELSE IF r.body.k = "malformed"
         THEN Throw(400, "Invalid JSON payload", store, seqno)
    ELSE IF r.body.k = "null" THEN ThrowTypeError(store, seqno)
    ELSE IF r.body.name # Undefined /\ ~requireNameOk(r.body.name)
         THEN Throw(400, "Name is required", store, seqno)
    ELSE IF r.body.name = Undefined
         THEN Throw(400, "Nothing to update", store, seqno)
    ELSE IF r.fail THEN handleSupabaseError(r.err, store, seqno)
    ELSE LET id == parseId(r.id)
             old == RowOf(store, id)
             new == [old EXCEPT !.name = requireName(r.body.name),
                                !.updated_at = apims]
         \* no row: .single() reports PGRST116, answered 404
         IN IF id \notin Ids(store)
            THEN Throw(404, "Project not found", store, seqno)
            ELSE Result(200, new, <<>>, (store \ {old}) \cup {new}, seqno)

HostedDelete(store, seqno, r, dbms, apims) ==
    IF ~parseIdOk(r.id) THEN Throw(400, "Invalid project id", store, seqno)
    ELSE IF r.fail THEN handleSupabaseError(r.err, store, seqno)
    ELSE LET id == parseId(r.id)
         \* .maybeSingle() yields no data when nothing was deleted
         IN IF id \notin Ids(store)
            THEN Throw(404, "Project not found", store, seqno)
            ELSE Result(204, NoRow, <<>>, store \ {RowOf(store, id)}, seqno)

-----------------------------------------------------------------------------
(* Earlier hosted variant (router r).                                      *)

\* const body = await c.req.json().catch(() => ({})); body?.name
EarlierName(body) == IF body.k = "object" THEN body.name ELSE Undefined

\* throw new HTTPException(status, { message }), under earlierOnError
EarlierThrow(status, text, store, seqno) ==
    Reject(earlierOnError(HTTPException(status, <<text>>)), store, seqno)

\* Texts of the errors the hosted service reports for a row that is not
\* there and for an id that is not an integer.
NoRowsText == "JSON object requested, multiple (or no) rows returned"
BadIntegerText == "invalid input syntax for type bigint"

EarlierGet(store, seqno, r, dbms, apims) ==
    IF r.fail THEN EarlierThrow(500, r.err, store, seqno)
    ELSE Result(200, NoRow, SortDesc(store), store, seqno)

EarlierPost(store, seqno, r, dbms, apims) ==
    LET raw == EarlierName(r.body)
        \* String(body?.name || '').trim()
        name == IF Truthy(raw) THEN Trim(ToStr(raw)) ELSE <<>>
    IN IF name = <<>> THEN EarlierThrow(400, "name required", store, seqno)
       ELSE IF r.fail THEN EarlierThrow(500, r.err, store, seqno)
       ELSE LET row == InsertedRow(seqno, name, HostedDbTime(dbms))
            IN Result(201, row, <<>>, store \cup {row}, row.id)

\* EarlierPatch with the name stored as it was sent.
EarlierPatch_NoTrim(store, seqno, r, dbms, apims) ==
    LET id == ToNumber(r.id)
        raw == EarlierName(r.body)
        name == IF Truthy(raw) THEN ToStr(raw) ELSE <<>>
        old == RowOf(store, id.n)
        new == [old EXCEPT !.name = name]
    IN IF id.kind = "nan" \/ (id.kind = "int" /\ id.n = 0) \/ name = <<>>
       THEN EarlierThrow(400, "invalid payload", store, seqno)
       ELSE IF r.fail THEN EarlierThrow(500, r.err, store, seqno)
       ELSE IF id.kind = "frac"
            THEN EarlierThrow(500, BadIntegerText, store, seqno)
       ELSE IF id.n \notin Ids(store)
            THEN EarlierThrow(500, NoRowsText, store, seqno)
       ELSE Result(200, new, <<>>, (store \ {old}) \cup {new}, seqno)

EarlierPatch(store, seqno, r, dbms, apims) ==
    LET id == ToNumber(r.id)
        raw == EarlierName(r.body)
        \* body?.name ? String(body.name).trim() : undefined
        name == IF Truthy(raw) THEN Trim(ToStr(raw)) ELSE <<>>
        old == RowOf(store, id.n)
        new == [old EXCEPT !.name = name]
    IN \* !id holds for NaN and for 0; !name for undefined and for ''
       IF id.kind = "nan" \/ (id.kind = "int" /\ id.n = 0) \/ name = <<>>
       THEN EarlierThrow(400, "invalid payload", store, seqno)
       ELSE IF r.fail THEN EarlierThrow(500, r.err, store, seqno)
       \* a fractional id is not a valid integer literal for the id column
       ELSE IF id.kind = "frac"
            THEN EarlierThrow(500, BadIntegerText, store, seqno)
       \* .single() reports an error when no row was updated
       ELSE IF id.n \notin Ids(store)
            THEN EarlierThrow(500, NoRowsText, store, seqno)
       ELSE Result(200, new, <<>>, (store \ {old}) \cup {new}, seqno)

EarlierDelete(store, seqno, r, dbms, apims) ==
    LET id == ToNumber(r.id)
    IN IF id.kind = "nan" \/ (id.kind = "int" /\ id.n = 0)
       THEN EarlierThrow(400, "invalid id", store, seqno)
       ELSE IF r.fail THEN EarlierThrow(500, r.err, store, seqno)
       ELSE IF id.kind = "frac"
            THEN EarlierThrow(500, BadIntegerText, store, seqno)
       \* the number of deleted rows is never looked at
       ELSE Result(204, NoRow, <<>>,
                   store \ {q \in store : q.id = id.n}, seqno)

-----
(* Dispatch of a projects request to the deployed variant *)

Handle(v, store, seqno, r, dbms, apims) ==
    CASE v = "embedded" /\ r.method = "GET" -> EmbeddedGet(store, seqno, r, dbms, apims)
      [] v = "embedded" /\ r.method = "POST" -> EmbeddedPost(store, seqno, r, dbms, apims)
      [] v = "embedded" /\ r.method = "PATCH" -> EmbeddedPatch(store, seqno, r, dbms, apims)
      [] v = "embedded" /\ r.method = "DELETE" -> EmbeddedDelete(store, seqno, r, dbms, apims)
      [] v = "hosted" /\ r.method = "GET" -> HostedGet(store, seqno, r, dbms, apims)
      [] v = "hosted" /\ r.method = "POST" -> HostedPost(store, seqno, r, dbms, apims)
      [] v = "hosted" /\ r.method = "PATCH" -> HostedPatch(store, seqno, r, dbms, apims)
      [] v = "hosted" /\ r.method = "DELETE" -> HostedDelete(store, seqno, r, dbms, apims)
      [] v = "earlier" /\ r.method = "GET" -> EarlierGet(store, seqno, r, dbms, apims)
      [] v = "earlier" /\ r.method = "POST" -> EarlierPost(store, seqno, r, dbms, apims)
      [] v = "earlier" /\ r.method = "PATCH" -> EarlierPatch(store, seqno, r, dbms, apims)
      [] v = "earlier" /\ r.method = "DELETE" -> EarlierDelete(store, seqno, r, dbms, apims)

-----------------------------------------------------------------------------
(* The projects resource as a state machine *)

Skews == {0 - ClockStep, 0}

NoReq ==
    [method |-> "NONE", id |-> NoId, body |-> NoBody, fail |-> FALSE,
     err |-> NoErr]
NoResp == [status |-> 0, error |-> <<>>, row |-> NoRow, list |-> <<>>]

\* GET /projects with the storage answering
GetRequest ==
    [method |-> "GET", id |-> NoId, body |-> NoBody, fail |-> FALSE,
     err |-> NoErr]

ProjIdle ==
    /\ variant = "embedded" /\ skew = 0 /\ now = 0 /\ projects = {}
    /\ seq = 0 /\ everIds = {}
    /\ req = NoReq /\ resp = NoResp /\ before = {}

ProjInit ==
    /\ variant \in Variants
    \* only the hosted route reads the API process clock
    /\ skew \in IF variant = "hosted" THEN Skews ELSE {0}
    /\ now = 0
    /\ projects = {}
    /\ seq = 0
    /\ everIds = {}
    /\ req = NoReq
    /\ resp = NoResp
    /\ before = {}

\* One request, handled to completion by the deployed variant.
Serve(r) ==
    \E res \in {Handle(variant, projects, seq, r, now, ApiTime(now, skew))} :
       /\ projects' = res.store
       /\ seq' = res.seq
       /\ everIds' = everIds \cup Ids(projects)
       /\ req' = r
       /\ before' = projects
       /\ resp' = [status |-> res.status, error |-> res.error,
                   row |-> res.row, list |-> res.list]
       /\ UNCHANGED <<variant, skew, now>>

Get ==
    \E o \in StorageOutcomes :
        Serve([method |-> "GET", id |-> NoId, body |-> NoBody,
               fail |-> o.fail, err |-> o.err])

Post ==
    /\ seq < MaxSeq
    /\ \E bf \in BodiesWithFailure :
        Serve([method |-> "POST", id |-> NoId, body |-> bf.body,
               fail |-> bf.fail, err |-> bf.err])

Patch ==
    \E i \in PathIds, bf \in BodiesWithFailure :
        Serve([method |-> "PATCH", id |-> i, body |-> bf.body,
               fail |-> bf.fail, err |-> bf.err])

Delete ==
    \E i \in PathIds, o \in StorageOutcomes :
        Serve([method |-> "DELETE", id |-> i, body |-> NoBody,
               fail |-> o.fail, err |-> o.err])

Tick ==
    /\ now < ClockStep
    /\ now' = now + ClockStep
    /\ UNCHANGED <<variant, skew, projects, seq, everIds, req,
                   resp, before>>

ProjNext == Get \/ Post \/ Patch \/ Delete \/ Tick

-----------------------------------------------------------------------------
(* The rate limiter of the rate-limited POST /ai/complete.  Message texts  *)
(* and headers of this server are modelled with the HTTP shell further on. *)

RATE_LIMIT_WINDOW_MS == 60000
RATE_LIMIT_MAX_REQUESTS == 5

\* Headers consulted for the caller's identifier, in order of preference.
IdentifierHeaders ==
    << "x-forwarded-for", "cf-connecting-ip", "x-real-ip", "x-client-ip",
       "x-appengine-user-ip", "x-forwarded-host", "x-forwarded-proto",
       "x-request-id", "x-api-key", "authorization", "host" >>

RECURSIVE FirstPresent(_, _)
FirstPresent(headers, names) ==
    IF names = <<>> THEN "anonymous"
    ELSE IF Head(names) \in DOMAIN headers THEN headers[Head(names)]
    ELSE FirstPresent(headers, Tail(names))

\* The ?? chain at the top of enforceRateLimit.
Identifier(headers) == FirstPresent(headers, IdentifierHeaders)

\* Header sets of the callers of the model.
HeaderSets ==
    { << >>,
      [h \in {"x-forwarded-for", "host"} |->
          IF h = "host" THEN "api.local" ELSE "10.0.0.1"],
      [h \in {"x-real-ip", "authorization"} |->
          IF h = "authorization" THEN "Bearer t" ELSE "10.0.0.1"] }

\* Instants at which requests arrive: the start, one window length later,
\* and one millisecond after that.
Instants == { 0, RATE_LIMIT_WINDOW_MS, RATE_LIMIT_WINDOW_MS + 1 }

\* enforceRateLimit with the quota compared by > instead of >=.
enforceRateLimit_OffByOne(buckets, headers, t) ==
    LET identifier == Identifier(headers)
        present == identifier \in DOMAIN buckets
        record == IF present THEN buckets[identifier]
                  ELSE [count |-> 0, windowStart |-> 0]
        set(rec) == [k \in DOMAIN buckets \cup {identifier} |->
                        IF k = identifier THEN rec ELSE buckets[k]]
    IN IF ~present \/ t - record.windowStart > RATE_LIMIT_WINDOW_MS
       THEN [ok |-> TRUE, buckets |-> set([count |-> 1, windowStart |-> t])]
       ELSE IF record.count > RATE_LIMIT_MAX_REQUESTS
       THEN [ok |-> FALSE, buckets |-> buckets]
       ELSE [ok |-> TRUE,
             buckets |-> set([record EXCEPT !.count = record.count + 1])]

\* enforceRateLimit that increments the record and does not store it.
enforceRateLimit_LostUpdate(buckets, headers, t) ==
    LET identifier == Identifier(headers)
        present == identifier \in DOMAIN buckets
        record == IF present THEN buckets[identifier]
                  ELSE [count |-> 0, windowStart |-> 0]
        set(rec) == [k \in DOMAIN buckets \cup {identifier} |->
                        IF k = identifier THEN rec ELSE buckets[k]]
    IN IF ~present \/ t - record.windowStart > RATE_LIMIT_WINDOW_MS
       THEN [ok |-> TRUE, buckets |-> set([count |-> 1, windowStart |-> t])]
       ELSE IF record.count >= RATE_LIMIT_MAX_REQUESTS
       THEN [ok |-> FALSE, buckets |-> buckets]
       ELSE [ok |-> TRUE, buckets |-> buckets]

\* enforceRateLimit: [ok, buckets]; ok = FALSE is the thrown 429.
enforceRateLimit(buckets, headers, t) ==
    LET identifier == Identifier(headers)
        present == identifier \in DOMAIN buckets
        record == IF present THEN buckets[identifier]
                  ELSE [count |-> 0, windowStart |-> 0]
        set(rec) == [k \in DOMAIN buckets \cup {identifier} |->
                        IF k = identifier THEN rec ELSE buckets[k]]
    IN IF ~present \/ t - record.windowStart > RATE_LIMIT_WINDOW_MS
       THEN [ok |-> TRUE, buckets |-> set([count |-> 1, windowStart |-> t])]
       ELSE IF record.count >= RATE_LIMIT_MAX_REQUESTS
       THEN [ok |-> FALSE, buckets |-> buckets]
       ELSE [ok |-> TRUE,
             buckets |-> set([record EXCEPT !.count = record.count + 1])]

\* Body of a prompt request, as c.req.json() yields it.
MalformedPrompt == [k |-> "malformed", prompt |-> Undefined]
NoPrompt == [k |-> "object", prompt |-> Undefined]
GoodPrompt == [k |-> "object", prompt |-> JStr(<<" ", "a">>)]

\* What the upstream API does when it is called.
Upstreams == {"unreachable", "error_status", "ok_text", "ok_no_text"}

\* The requests of the model: [body, apiKey, upstream].  The credential and
\* the upstream only vary where the handler gets to look at them.
CompleteRequests ==
    { [body |-> b, apiKey |-> TRUE, upstream |-> "ok_text"] :
          b \in {MalformedPrompt, NoPrompt} }
    \cup { [body |-> GoodPrompt, apiKey |-> FALSE, upstream |-> "ok_text"] }
    \cup { [body |-> GoodPrompt, apiKey |-> TRUE, upstream |-> u] :
              u \in Upstreams }

\* Rest of the handler after enforceRateLimit: [status, called].
CompleteAfterLimit(body, apiKey, upstream) ==
    IF body.k = "malformed" THEN [status |-> 400, called |-> FALSE]
    \* reading .prompt of null throws: the catch-all answers 500
    ELSE IF body.k = "null" THEN [status |-> 500, called |-> FALSE]
    ELSE IF body.prompt.t # "string" \/ Len(Trim(body.prompt.v)) = 0
         THEN [status |-> 400, called |-> FALSE]
    ELSE IF ~apiKey THEN [status |-> 500, called |-> FALSE]
    ELSE IF upstream \in {"unreachable", "error_status"}
         THEN [status |-> 502, called |-> TRUE]
    ELSE IF upstream = "ok_no_text" THEN [status |-> 500, called |-> TRUE]
    ELSE [status |-> 200, called |-> TRUE]

\* History kept per identifier: the times of the admitted requests that are
\* no older than one window length.
Recent(log, t) ==
    [k \in DOMAIN log |->
        SelectSeq(log[k], LAMBDA a : a >= t - RATE_LIMIT_WINDOW_MS)]

NoRlResp == [status |-> 0, called |-> FALSE, identifier |-> ""]

RateIdle ==
    /\ rateLimitBuckets = << >> /\ rlNow = 0
    /\ admitted = << >> /\ rlResp = NoRlResp

RateInit == RateIdle

\* POST /ai/complete of the rate-limited server, at the current instant.
AiComplete ==
    \E headers \in HeaderSets, r \in CompleteRequests :
        LET lim == enforceRateLimit(rateLimitBuckets, headers, rlNow)
            id == Identifier(headers)
            rest == CompleteAfterLimit(r.body, r.apiKey, r.upstream)
            old == IF id \in DOMAIN admitted THEN admitted[id] ELSE <<>>
        IN /\ rateLimitBuckets' = lim.buckets
           /\ admitted' =
                IF lim.ok
                THEN [k \in DOMAIN admitted \cup {id} |->
                        IF k = id THEN Append(old, rlNow) ELSE admitted[k]]
                ELSE admitted
           /\ rlResp' =
                IF lim.ok
                THEN [status |-> rest.status, called |-> rest.called,
                      identifier |-> id]
                ELSE [status |-> 429, called |-> FALSE, identifier |-> id]
           /\ UNCHANGED rlNow

\* Time passes in the rate-limited process.
Advance ==
    \E t \in Instants :
        /\ t > rlNow
        /\ rlNow' = t
        /\ admitted' = Recent(admitted, t)
        /\ UNCHANGED <<rateLimitBuckets, rlResp>>

RateNext == AiComplete \/ Advance

-----------------------------------------------------------------------------
(* The migration runner and the database singleton (embedded variant) *)

\* UTF-16 code units of the characters that occur in file names.
CharCode(ch) ==
    CASE ch = "." -> 46 [] ch \in Digits -> 48 + DigitVal(ch)
      [] ch = "l" -> 108 [] ch = "q" -> 113 [] ch = "s" -> 115
      [] ch = "t" -> 116 [] ch = "x" -> 120

\* a < b in the order of Array.prototype.sort() without a comparator.
RECURSIVE LexLess(_, _)
LexLess(a, b) ==
    IF b = <<>> THEN FALSE
    ELSE IF a = <<>> THEN TRUE
    ELSE IF Head(a) # Head(b) THEN CharCode(Head(a)) < CharCode(Head(b))
    ELSE LexLess(Tail(a), Tail(b))

\* file.endsWith('.sql')
EndsWithSql(file) ==
    /\ Len(file) >= 4
    /\ SubSeq(file, Len(file) - 3, Len(file)) = <<".", "s", "q", "l">>

RECURSIVE SortFiles(_)
SortFiles(files) ==
    IF files = {} THEN <<>>
    ELSE LET m == CHOOSE f \in files : \A g \in files : f = g \/ LexLess(f, g)
         IN <<m>> \o SortFiles(files \ {m})

\* readdirSync(...).filter(endsWith('.sql')).sort()
ListMigrationFiles(files) == SortFiles({f \in files : EndsWithSql(f)})

SqlName(stem) == stem \o <<".", "s", "q", "l">>

\* Names that can appear in the migrations directory.
FileNames ==
    { SqlName(<<"1">>), SqlName(<<"1", "0">>), SqlName(<<"2">>),
      <<"2", ".", "t", "x", "t">> }

\* The database file.  state[f] is what the SQL of file f has left in the
\* database: nothing, a part of its statements, or all of them.
\* commits[f] counts the transactions of f that committed.
EmptyDisk ==
    [table |-> FALSE, applied |-> {},
     state |-> [f \in FileNames |-> "none"],
     commits |-> [f \in FileNames |-> 0]]

\* database.transaction(fn)(): fn's writes are kept when fn returns and
\* undone when it throws.  A failing file stops after a part of its SQL.
\* runMigration without the transaction: a failure leaves what it wrote.
runMigration_NoRollback(d, file, fails) ==
    LET afterExec == [d EXCEPT !.state[file] = IF fails THEN "part" ELSE "all"]
        afterInsert == [afterExec EXCEPT !.applied = @ \cup {file}]
    IN IF fails THEN [ok |-> FALSE, disk |-> afterExec]
       ELSE [ok |-> TRUE,
             disk |-> [afterInsert EXCEPT !.commits[file] = @ + 1]]

runMigration(d, file, fails) ==
    LET afterExec == [d EXCEPT !.state[file] = IF fails THEN "part" ELSE "all"]
        afterInsert == [afterExec EXCEPT !.applied = @ \cup {file}]
    IN IF fails THEN [ok |-> FALSE, disk |-> d]
       ELSE [ok |-> TRUE,
             disk |-> [afterInsert EXCEPT !.commits[file] = @ + 1]]

\* The for loop of applyMigrations over the sorted files, from the set
\* `applied` read before the loop.  failing: the files whose SQL throws.
\* ran: the files attempted in this call, in order.
RECURSIVE MigrationLoop(_, _, _, _, _)
MigrationLoop(d, files, applied, failing, ran) ==
    IF files = <<>> THEN [ok |-> TRUE, disk |-> d, ran |-> ran]
    ELSE LET file == Head(files)
         IN IF file \in applied
            THEN MigrationLoop(d, Tail(files), applied, failing, ran)
            ELSE LET r == runMigration(d, file, file \in failing)
                 IN IF r.ok
                    THEN MigrationLoop(r.disk, Tail(files), applied, failing,
                                       Append(ran, file))
                    ELSE [ok |-> FALSE, disk |-> r.disk,
                          ran |-> Append(ran, file)]

\* applyMigrations that does not skip the files recorded in __migrations.
applyMigrations_NoSkip(d, dir, failing) ==
    IF ~dir.exists THEN [ok |-> TRUE, disk |-> d, ran |-> <<>>]
    ELSE LET withTable == [d EXCEPT !.table = TRUE]
         IN MigrationLoop(withTable, ListMigrationFiles(dir.files),
                          {}, failing, <<>>)

\* applyMigrations(database)
applyMigrations(d, dir, failing) ==
    IF ~dir.exists THEN [ok |-> TRUE, disk |-> d, ran |-> <<>>]
    ELSE LET withTable == [d EXCEPT !.table = TRUE]
         IN MigrationLoop(withTable, ListMigrationFiles(dir.files),
                          withTable.applied, failing, <<>>)

\* getDatabase without the test of instance: every call constructs.
getDatabase_NoCache(instance, d, dir, failing) ==
    LET m == applyMigrations(d, dir, failing)
    IN [returned |-> m.ok, instance |-> TRUE, disk |-> m.disk,
        ran |-> m.ran, opened |-> TRUE]

\* getDatabase(): [returned, instance, disk, ran, opened].  returned = FALSE
\* is an exception leaving the call; opened says a handle was constructed.
getDatabase(instance, d, dir, failing) ==
    IF instance
    THEN [returned |-> TRUE, instance |-> TRUE, disk |-> d, ran |-> <<>>,
          opened |-> FALSE]
    ELSE LET m == applyMigrations(d, dir, failing)
         \* instance is assigned before applyMigrations is called
         IN [returned |-> m.ok, instance |-> TRUE, disk |-> m.disk,
             ran |-> m.ran, opened |-> TRUE]

-----------------------------------------------------------------------------
(* Processes of the embedded variant started against one database file *)

NoDir == [exists |-> FALSE, files |-> {}]

\* pc: down, boot (module evaluation begins), imported (the routes module
\* holds its handle), ready (the server's own getDatabase() returned),
\* serving, done (the migrate script ended), crashed (uncaught exception).
\* failing, seen, ran are history: the files whose SQL throws in this
\* process, the files present when the handle was constructed, and the
\* files attempted, in order.  opened counts constructed handles.
Down ==
    [pc |-> "down", kind |-> "none", instance |-> FALSE, failing |-> {},
     seen |-> {}, ran |-> <<>>, opened |-> 0]

MigIdle ==
    /\ disk = EmptyDisk /\ migrationFiles = NoDir /\ proc = Down

MigInit == MigIdle

\* A call of getDatabase() by the running process; the next pc depends on
\* whether the call returned.
CallGetDatabase(failing, pcReturned) ==
    LET res == getDatabase(proc.instance, disk, migrationFiles, failing)
    IN /\ disk' = res.disk
       /\ proc' = [proc EXCEPT
                     !.pc = IF res.returned THEN pcReturned ELSE "crashed",
                     !.instance = res.instance,
                     !.failing = IF res.opened THEN failing ELSE @,
                     !.seen = IF res.opened
                              THEN {f \in migrationFiles.files : EndsWithSql(f)}
                              ELSE @,
                     !.ran = @ \o res.ran,
                     !.opened = @ + (IF res.opened THEN 1 ELSE 0)]
       /\ UNCHANGED migrationFiles

StartServer ==
    /\ proc.pc = "down"
    /\ proc' = [Down EXCEPT !.pc = "boot", !.kind = "server"]
    /\ UNCHANGED <<disk, migrationFiles>>

StartMigrate ==
    /\ proc.pc = "down"
    /\ proc' = [Down EXCEPT !.pc = "boot", !.kind = "migrate"]
    /\ UNCHANGED <<disk, migrationFiles>>

\* import of routes/projects: const db = getDatabase()
ImportRoutes ==
    /\ proc.pc = "boot" /\ proc.kind = "server"
    /\ \E failing \in SUBSET migrationFiles.files :
          CallGetDatabase(failing, "imported")

\* the server module's own getDatabase() before serve()
ServerGetDatabase ==
    /\ proc.pc = "imported"
    /\ \E failing \in SUBSET migrationFiles.files :
          CallGetDatabase(failing, "ready")

ServeRequests ==
    /\ proc.pc = "ready"
    /\ proc' = [proc EXCEPT !.pc = "serving"]
    /\ UNCHANGED <<disk, migrationFiles>>

\* the migrate script: const db = getDatabase(); console.log(...)
MigrateScript ==
    /\ proc.pc = "boot" /\ proc.kind = "migrate"
    /\ \E failing \in SUBSET migrationFiles.files :
          CallGetDatabase(failing, "done")

\* the process ends (exit, crash or kill); its memory is gone
Stop ==
    /\ proc.pc \in {"serving", "done", "crashed"}
    /\ proc' = Down
    /\ UNCHANGED <<disk, migrationFiles>>

\* a developer adds a file to the migrations directory
AddFile ==
    /\ \E f \in FileNames \ migrationFiles.files :
          migrationFiles' = [exists |-> TRUE,
                             files |-> migrationFiles.files \cup {f}]
    /\ UNCHANGED <<disk, proc>>

\* an empty migrations directory is created
MakeDir ==
    /\ ~migrationFiles.exists
    /\ migrationFiles' = [exists |-> TRUE, files |-> {}]
    /\ UNCHANGED <<disk, proc>>

-----------------------------------------------------------------------------
(* The HTTP shell: CORS headers, routing, error translation and the proxy  *)
(* handlers, in the three server files (embedded, hosted, earlier hosted). *)

Servers == {"embedded", "hosted", "earlier"}

\* Names of process.env that the proxy handlers read.
Credentials ==
    { "OPENAI_API_KEY", "GOOGLE_API_KEY", "AZURE_SEARCH_ENDPOINT",
      "AZURE_SEARCH_API_KEY", "AZURE_SEARCH_INDEX", "PEXELS_API_KEY" }

Unset == ""
DefaultOrigin == "http://localhost:5173"
ConfiguredOrigin == "https://app.example"

\* Environments of the model: CORS_ORIGIN unset or set with every
\* credential set; and, CORS_ORIGIN unset, exactly one credential missing
\* or none set.
Envs ==
    { [cors |-> c, keys |-> Credentials] : c \in {Unset, ConfiguredOrigin} }
    \cup { [cors |-> Unset, keys |-> k] :
              k \in {{}} \cup {Credentials \ {x} : x \in Credentials} }

\* The Origin header of a request: absent, or one of two origins.
NoOrigin == ""
Origins == {NoOrigin, DefaultOrigin, ConfiguredOrigin}

NoHeader == ""
AllowMethods == "GET,POST,PATCH,DELETE,OPTIONS"

\* Headers the middleware leaves on c.res; they are on the final response.
CorsHeaders(allowOrigin, allowHeaders) ==
    [h \in { "Access-Control-Allow-Origin", "Access-Control-Allow-Methods",
             "Access-Control-Allow-Headers", "Vary" } |->
        CASE h = "Access-Control-Allow-Origin" -> allowOrigin
          [] h = "Access-Control-Allow-Methods" -> AllowMethods
          [] h = "Access-Control-Allow-Headers" -> allowHeaders
          [] h = "Vary" -> "Origin"]

\* corsMiddleware of the embedded and of the hosted server
corsMiddleware(e, requestOrigin) ==
    LET allowedOrigin == IF e.cors = Unset THEN DefaultOrigin ELSE e.cors
    IN IF requestOrigin = NoOrigin \/ requestOrigin = allowedOrigin
       THEN CorsHeaders(IF requestOrigin = NoOrigin THEN allowedOrigin
                        ELSE requestOrigin, "Content-Type")
       ELSE CorsHeaders(NoHeader, "Content-Type")

\* the middleware of the earlier hosted server: ORIGIN = CORS_ORIGIN || '*'
earlierCors(e, requestOrigin) ==
    CorsHeaders(IF e.cors = Unset THEN "*" ELSE e.cors,
                "Content-Type,Authorization")

-----------------------------------------------------------------------------
(* Upstream APIs: what a call meets, and the payloads of a success         *)

Arr(items) == [isArray |-> TRUE, items |-> items]
NotArr == [isArray |-> FALSE, items |-> <<>>]

ReasonText == "getaddrinfo ENOTFOUND"
UpstreamErrorText == "quota exceeded"

\* The outcomes of a call: fetch rejects, a non-success status with an
\* error body, or a success status with one of the payloads.  blank is the
\* payload of the outcomes that have none.
Outcomes(payloads, blank) ==
    { [kind |-> "unreachable", text |-> ReasonText, payload |-> blank],
      [kind |-> "status", text |-> UpstreamErrorText, payload |-> blank] }
    \cup { [kind |-> "ok", text |-> "", payload |-> p] : p \in payloads }

NoUpstream == [kind |-> "none", text |-> "", payload |-> <<>>]

\* Payloads of the text-completion API.  k: the body is not JSON, is null,
\* or is an object; output: items with a content array of parts, a part
\* being the value of its text property; choices: the values of
\* message.content.
CompletionPayload(k, output, choices) ==
    [k |-> k, output |-> output, choices |-> choices]

CompletionPayloads ==
    { CompletionPayload("invalid", NotArr, NotArr),
      CompletionPayload("null", NotArr, NotArr),
      CompletionPayload("object", NotArr, NotArr),
      CompletionPayload("object",
          Arr(<< [content |-> NotArr],
                 [content |-> Arr(<< JNum(<<"7">>), JStr(<<" ">>),
                                     JStr(<<" ", "a">>) >>)] >>), NotArr),
      CompletionPayload("object",
          Arr(<< [content |-> Arr(<< JStr(<<" ">>) >>)] >>), NotArr),
      CompletionPayload("object", NotArr, Arr(<< JStr(<<"c">>) >>)) }

\* Payloads of the generative-text API: candidates with content.parts.
GeminiPayload(k, candidates) == [k |-> k, candidates |-> candidates]

GeminiPayloads ==
    { GeminiPayload("invalid", NotArr),
      GeminiPayload("object", NotArr),
      GeminiPayload("object",
          Arr(<< [content |-> Arr(<< JStr(<<" ">>), JStr(<<"g", " ">>) >>)] >>)),
      GeminiPayload("object", Arr(<< [content |-> NotArr] >>)) }

\* Payloads of the search API: the value array of hits.
SearchPayload(k, value) == [k |-> k, value |-> value]

SearchPayloads ==
    { SearchPayload("invalid", NotArr),
      SearchPayload("object", NotArr),
      SearchPayload("object", Arr(<<"doc1", "doc2">>)) }

\* Payloads of the stock-photo API.
PexelsPayload(k, photos, page, per_page, total_results) ==
    [k |-> k, photos |-> photos, page |-> page, per_page |-> per_page,
     total_results |-> total_results]

PexelsPayloads ==
    { PexelsPayload("invalid", NotArr, Undefined, Undefined, Undefined),
      PexelsPayload("object", NotArr, Undefined, Undefined, Undefined),
      PexelsPayload("object", Arr(<<"photo1">>), Undefined, Undefined,
                    Undefined),
      PexelsPayload("object", Arr(<<"photo1">>), JNum(<<"3">>),
                    JNum(<<"4">>), JNum(<<"9">>)) }

NoText == <<>>

\* for (const part of content): the first text that is a string and is not
\* blank, trimmed
RECURSIVE FirstText(_)
FirstText(parts) ==
    IF parts = <<>> THEN NoText
    ELSE IF Head(parts).t = "string" /\ Trim(Head(parts).v) # <<>>
         THEN Trim(Head(parts).v)
    ELSE FirstText(Tail(parts))

\* for (const item of output): items whose content is not an array are
\* passed over
RECURSIVE FirstTextOfItems(_)
FirstTextOfItems(items) ==
    IF items = <<>> THEN NoText
    ELSE LET content == Head(items).content
             text == IF content.isArray THEN FirstText(content.items)
                     ELSE NoText
         IN IF text # NoText THEN text ELSE FirstTextOfItems(Tail(items))

\* extractTextFromResponse of the embedded and hosted servers: output
\* first, then choices
extractTextFromResponse(payload) ==
    LET fromOutput == IF payload.output.isArray
                      THEN FirstTextOfItems(payload.output.items)
                      ELSE NoText
    IN IF fromOutput # NoText THEN fromOutput
       ELSE IF payload.choices.isArray THEN FirstText(payload.choices.items)
       ELSE NoText

\* extractTextFromResponse of the earlier server: output only
earlierExtractTextFromResponse(payload) ==
    IF payload.output.isArray THEN FirstTextOfItems(payload.output.items)
    ELSE NoText

\* extractTextFromGeminiResponse (the same in the servers that have it)
extractTextFromGeminiResponse(payload) ==
    IF payload.candidates.isArray
    THEN FirstTextOfItems(payload.candidates.items)
    ELSE NoText

-----------------------------------------------------------------------------
(* Proxy handlers.  A handler ends by answering or by throwing; calls is   *)
(* the sequence of outbound calls it made.                                 *)

\* A query parameter: absent, or its text.
AbsentParam == [present |-> FALSE, v |-> <<>>]
Param(s) == [present |-> TRUE, v |-> s]

\* A number in a JSON response: NaN is serialised as null.
JsonNull == [kind |-> "null", n |-> 0]
JsonNumber(x) == IF x.kind = "nan" THEN JsonNull ELSE x

\* typeof j === 'number', and the number
IsNumber(j) == j.t = "number"
NumberOf(j) == JsInt(DecimalValue(j.v))

\* Body of a response, one shape for all routes.  count is the number of
\* projects, hits or photos.
BodyOut(kind, text, count, page, per_page, total_results) ==
    [kind |-> kind, text |-> text, count |-> count, page |-> page,
     per_page |-> per_page, total_results |-> total_results]
NoBodyOut == BodyOut("none", <<>>, 0, JsonNull, JsonNull, JsonNull)
TextBody(text) == BodyOut("text", text, 0, JsonNull, JsonNull, JsonNull)
HitsBody(count) == BodyOut("hits", <<>>, count, JsonNull, JsonNull, JsonNull)

\* An outbound call: the API, the prompt or query, and the paging sent.
Call(api, q, page, per_page) ==
    [api |-> api, q |-> q, page |-> page, per_page |-> per_page]

NoException == [http |-> TRUE, status |-> 0, message |-> <<>>]

Answer(status, body, calls) ==
    [thrown |-> FALSE, exc |-> NoException, status |-> status,
     body |-> body, calls |-> calls]
Raise(exc, calls) ==
    [thrown |-> TRUE, exc |-> exc, status |-> 0, body |-> NoBodyOut,
     calls |-> calls]

\* readPromptFromBody of the embedded and hosted servers
readPromptFromBody(body) ==
    IF body.k = "malformed"
    THEN [ok |-> FALSE, prompt |-> <<>>,
          exc |-> HTTPException(400, <<"Invalid JSON body">>)]
    \* reading .prompt of null throws a TypeError
    ELSE IF body.k = "null"
    THEN [ok |-> FALSE, prompt |-> <<>>, exc |-> OtherError("TypeError")]
    ELSE LET prompt == IF body.prompt.t = "string" THEN Trim(body.prompt.v)
                       ELSE <<>>
         IN IF prompt = <<>>
            THEN [ok |-> FALSE, prompt |-> <<>>,
                  exc |-> HTTPException(400, <<"Prompt is required">>)]
            ELSE [ok |-> TRUE, prompt |-> prompt, exc |-> NoException]

\* readPromptFromBody of the earlier server
earlierReadPromptFromBody(body) ==
    IF body.k = "malformed"
    THEN [ok |-> FALSE, prompt |-> <<>>,
          exc |-> HTTPException(400, <<"Invalid JSON payload">>)]
    ELSE IF body.k = "null"
    THEN [ok |-> FALSE, prompt |-> <<>>, exc |-> OtherError("TypeError")]
    ELSE IF body.prompt.t # "string" \/ Len(Trim(body.prompt.v)) = 0
    THEN [ok |-> FALSE, prompt |-> <<>>,
          exc |-> HTTPException(400, <<"Prompt is required">>)]
    ELSE [ok |-> TRUE, prompt |-> Trim(body.prompt.v), exc |-> NoException]

\* Receive without the try/catch around fetch.
Receive_NoCatch(reachPrefix, errorPrefix, up) ==
    IF up.kind = "unreachable"
    THEN [ok |-> FALSE, exc |-> OtherError(up.text)]
    ELSE IF up.kind = "status"
    THEN [ok |-> FALSE, exc |-> HTTPException(502, <<errorPrefix, up.text>>)]
    ELSE IF up.payload.k = "invalid"
    THEN [ok |-> FALSE, exc |-> OtherError("SyntaxError")]
    ELSE IF up.payload.k = "null"
    THEN [ok |-> FALSE, exc |-> OtherError("TypeError")]
    ELSE [ok |-> TRUE, exc |-> NoException]

\* The part every handler has after its call is built: fetch in try/catch,
\* the response.ok check, response.json(), and the first property read of
\* the payload.
Receive(reachPrefix, errorPrefix, up) ==
    IF up.kind = "unreachable"
    THEN [ok |-> FALSE, exc |-> HTTPException(502, <<reachPrefix, up.text>>)]
    ELSE IF up.kind = "status"
    THEN [ok |-> FALSE, exc |-> HTTPException(502, <<errorPrefix, up.text>>)]
    \* response.json() throws a SyntaxError
    ELSE IF up.payload.k = "invalid"
    THEN [ok |-> FALSE, exc |-> OtherError("SyntaxError")]
    \* reading a property of null throws a TypeError
    ELSE IF up.payload.k = "null"
    THEN [ok |-> FALSE, exc |-> OtherError("TypeError")]
    ELSE [ok |-> TRUE, exc |-> NoException]

\* app.post('/ai/complete') of the embedded and hosted servers
aiComplete(e, r) ==
    LET p == readPromptFromBody(r.body)
        calls == << Call("openai", p.prompt, 0, 0) >>
        got == Receive("Failed to reach OpenAI API: ", "OpenAI API error: ",
                       r.upstream)
    IN IF ~p.ok THEN Raise(p.exc, <<>>)
       ELSE IF "OPENAI_API_KEY" \notin e.keys
       THEN Raise(HTTPException(500, <<"OpenAI API key is not configured">>),
                  <<>>)
       ELSE IF ~got.ok THEN Raise(got.exc, calls)
       ELSE LET text == extractTextFromResponse(r.upstream.payload)
            IN IF text = NoText
               THEN Raise(HTTPException(500,
                            <<"Unable to parse response from OpenAI">>), calls)
               ELSE Answer(200, TextBody(text), calls)

\* app.post('/ai/complete') of the earlier server, after enforceRateLimit
earlierAiComplete(e, r) ==
    LET p == earlierReadPromptFromBody(r.body)
        calls == << Call("openai", p.prompt, 0, 0) >>
        got == Receive("Failed to reach OpenAI API: ", "OpenAI API error: ",
                       r.upstream)
    IN IF ~p.ok THEN Raise(p.exc, <<>>)
       ELSE IF "OPENAI_API_KEY" \notin e.keys
       THEN Raise(HTTPException(500, <<"OpenAI API key is not configured">>),
                  <<>>)
       ELSE IF ~got.ok THEN Raise(got.exc, calls)
       ELSE LET text == earlierExtractTextFromResponse(r.upstream.payload)
            IN IF text = NoText
               THEN Raise(HTTPException(500,
                            <<"Unable to parse response from OpenAI">>), calls)
               ELSE Answer(200, TextBody(text), calls)

\* app.post('/ai/gemini'); p is what the server's readPromptFromBody
\* made of the request body
aiGemini(p, e, r) ==
    LET calls == << Call("google", p.prompt, 0, 0) >>
        got == Receive("Failed to reach Google AI API: ",
                       "Google AI API error: ", r.upstream)
    IN IF ~p.ok THEN Raise(p.exc, <<>>)
       ELSE IF "GOOGLE_API_KEY" \notin e.keys
       THEN Raise(HTTPException(500, <<"Google API key is not configured">>),
                  <<>>)
       ELSE IF ~got.ok THEN Raise(got.exc, calls)
       ELSE LET text == extractTextFromGeminiResponse(r.upstream.payload)
            IN IF text = NoText
               THEN Raise(HTTPException(500,
                     <<"Unable to parse response from Google AI API">>), calls)
               ELSE Answer(200, TextBody(text), calls)

\* search without the check of the index name.
search_NoIndexCheck(e, r) ==
    LET query == Trim(r.q.v)
        calls == << Call("azure", query, 0, 0) >>
        got == Receive("Failed to reach Azure AI Search: ",
                       "Azure AI Search error: ", r.upstream)
        value == r.upstream.payload.value
    IN IF ~r.q.present \/ query = <<>>
       THEN Raise(HTTPException(400,
                    <<"Query parameter \"q\" is required">>), <<>>)
       ELSE IF {"AZURE_SEARCH_ENDPOINT", "AZURE_SEARCH_API_KEY"}
                   \ e.keys # {}
       THEN Raise(HTTPException(500,
                    <<"Azure Search configuration is incomplete">>), <<>>)
       ELSE IF ~got.ok THEN Raise(got.exc, calls)
       ELSE Answer(200,
                   HitsBody(IF value.isArray THEN Len(value.items) ELSE 0),
                   calls)

\* app.get('/search') (the hosted and the earlier server agree on the
\* statuses and on the number of hits)
search(e, r) ==
    LET query == Trim(r.q.v)
        calls == << Call("azure", query, 0, 0) >>
        got == Receive("Failed to reach Azure AI Search: ",
                       "Azure AI Search error: ", r.upstream)
        value == r.upstream.payload.value
    IN IF ~r.q.present \/ query = <<>>
       THEN Raise(HTTPException(400,
                    <<"Query parameter \"q\" is required">>), <<>>)
       ELSE IF {"AZURE_SEARCH_ENDPOINT", "AZURE_SEARCH_API_KEY",
                "AZURE_SEARCH_INDEX"} \ e.keys # {}
       THEN Raise(HTTPException(500,
                    <<"Azure Search configuration is incomplete">>), <<>>)
       ELSE IF ~got.ok THEN Raise(got.exc, calls)
       \* Array.isArray(payload.value) ? payload.value.map(...) : []
       ELSE Answer(200,
                   HitsBody(IF value.isArray THEN Len(value.items) ELSE 0),
                   calls)

\* parsePositiveInt(value, fallback)
parsePositiveInt(value, fallback) ==
    IF ~value.present \/ value.v = <<>> THEN fallback
    ELSE LET parsed == ParseInt10(value.v)
         IN IF parsed.kind = "nan" \/ parsed.n <= 0 THEN fallback
            ELSE parsed.n

\* normalizePexelsResponse(payload, fallbackPage, fallbackPerPage)
normalizePexelsResponse(payload, fallbackPage, fallbackPerPage) ==
    LET photos == IF payload.photos.isArray THEN Len(payload.photos.items)
                  ELSE 0
    IN BodyOut("photos", <<>>, photos,
               IF IsNumber(payload.page) /\ NumberOf(payload.page).n > 0
               THEN NumberOf(payload.page) ELSE JsInt(fallbackPage),
               IF IsNumber(payload.per_page)
                  /\ NumberOf(payload.per_page).n > 0
               THEN NumberOf(payload.per_page) ELSE JsInt(fallbackPerPage),
               IF IsNumber(payload.total_results)
                  /\ NumberOf(payload.total_results).n >= 0
               THEN NumberOf(payload.total_results) ELSE JsInt(photos))

\* mediaPexels that calls the photo API a second time when the first call
\* could not reach it.
mediaPexels_Retry(e, r) ==
    LET query == Trim(r.q.v)
        page == parsePositiveInt(r.page, 1)
        perPage == parsePositiveInt(r.per_page, 10)
        calls == << Call("pexels", query, page, perPage) >>
        got == Receive("Failed to reach Pexels API: ", "Pexels API error: ",
                       r.upstream)
    IN IF ~r.q.present \/ query = <<>>
       THEN Raise(HTTPException(400,
                    <<"Query parameter \"query\" is required">>), <<>>)
       ELSE IF "PEXELS_API_KEY" \notin e.keys
       THEN Raise(HTTPException(500, <<"Pexels API key is not configured">>),
                  <<>>)
       ELSE IF ~got.ok
       THEN Raise(got.exc, IF r.upstream.kind = "unreachable"
                           THEN calls \o calls ELSE calls)
       ELSE Answer(200,
                   normalizePexelsResponse(r.upstream.payload, page, perPage),
                   calls)

\* app.get('/media/pexels') of the hosted server
mediaPexels(e, r) ==
    LET query == Trim(r.q.v)
        page == parsePositiveInt(r.page, 1)
        perPage == parsePositiveInt(r.per_page, 10)
        calls == << Call("pexels", query, page, perPage) >>
        got == Receive("Failed to reach Pexels API: ", "Pexels API error: ",
                       r.upstream)
    IN IF ~r.q.present \/ query = <<>>
       THEN Raise(HTTPException(400,
                    <<"Query parameter \"query\" is required">>), <<>>)
       ELSE IF "PEXELS_API_KEY" \notin e.keys
       THEN Raise(HTTPException(500, <<"Pexels API key is not configured">>),
                  <<>>)
       ELSE IF ~got.ok THEN Raise(got.exc, calls)
       ELSE Answer(200,
                   normalizePexelsResponse(r.upstream.payload, page, perPage),
                   calls)

\* Number.parseInt(c.req.query(name) ?? fallback, 10)
earlierParseParam(value, fallback) ==
    IF value.present THEN ParseInt10(value.v) ELSE JsInt(fallback)

\* Number.isFinite(n) && n > 0 ? String(n) : fallback
earlierSentParam(n, fallback) ==
    IF n.kind = "int" /\ n.n > 0 THEN n.n ELSE fallback

\* app.get('/media/pexels') of the earlier server
earlierMediaPexels(e, r) ==
    LET query == Trim(r.q.v)
        page == earlierParseParam(r.page, 1)
        perPage == earlierParseParam(r.per_page, 10)
        calls == << Call("pexels", query, earlierSentParam(page, 1),
                         earlierSentParam(perPage, 10)) >>
        got == Receive("Failed to reach Pexels API: ", "Pexels API error: ",
                       r.upstream)
        result == r.upstream.payload
        photos == IF result.photos.isArray THEN Len(result.photos.items)
                  ELSE 0
    IN IF ~r.q.present \/ query = <<>>
       THEN Raise(HTTPException(400,
                    <<"Query parameter \"query\" is required">>), <<>>)
       ELSE IF "PEXELS_API_KEY" \notin e.keys
       THEN Raise(HTTPException(500, <<"Pexels API key is not configured">>),
                  <<>>)
       ELSE IF ~got.ok THEN Raise(got.exc, calls)
       ELSE Answer(200,
              BodyOut("photos", <<>>, photos,
                 IF IsNumber(result.page) THEN NumberOf(result.page)
                 ELSE JsonNumber(page),
                 IF IsNumber(result.per_page) THEN NumberOf(result.per_page)
                 ELSE JsonNumber(perPage),
                 IF IsNumber(result.total_results)
                 THEN NumberOf(result.total_results) ELSE JsInt(photos)),
              calls)

-----------------------------------------------------------------------------
(* The application: middleware, routes, error handler                      *)

Paths ==
    { "/health", "/projects", "/ai/complete", "/ai/gemini", "/search",
      "/media/pexels", "/nope" }

ProxyRoutes == {"complete", "gemini", "search", "media"}

\* The route of a request in a server file; the embedded server has no
\* search and no media route.
Route(srv, method, path) ==
    CASE method = "GET" /\ path = "/health" -> "health"
      [] method = "GET" /\ path = "/projects" -> "projects"
      [] method = "POST" /\ path = "/ai/complete" -> "complete"
      [] method = "POST" /\ path = "/ai/gemini" -> "gemini"
      [] method = "GET" /\ path = "/search" /\ srv # "embedded" -> "search"
      [] method = "GET" /\ path = "/media/pexels" /\ srv # "embedded"
            -> "media"
      [] OTHER -> "none"

\* An HTTP request: [method, path, origin, body, q, page, per_page,
\* upstream]; upstream is what the outbound call meets if it is made.
NoPromptBody == [k |-> "none", prompt |-> Undefined]
NullPrompt == [k |-> "null", prompt |-> Undefined]

Request(method, path, origin, body, q, page, per_page, upstream) ==
    [method |-> method, path |-> path, origin |-> origin, body |-> body,
     q |-> q, page |-> page, per_page |-> per_page, upstream |-> upstream]

Plain(method, path, origin) ==
    Request(method, path, origin, NoPromptBody, AbsentParam, AbsentParam,
            AbsentParam, NoUpstream)

\* The route of a request after the middleware: OPTIONS never reaches a
\* route.
Routed(srv, r) ==
    IF r.method = "OPTIONS" THEN "preflight"
    ELSE Route(srv, r.method, r.path)

\* The handler that serves a request.  limit is the rate limiter's verdict
\* on the caller, listed the answer of the server's GET /projects.
Dispatch(srv, e, r, limit, listed) ==
    CASE Routed(srv, r) = "preflight" -> Answer(204, NoBodyOut, <<>>)
      [] Routed(srv, r) = "health" ->
           Answer(200, BodyOut("health", <<>>, 0, JsonNull, JsonNull,
                               JsonNull), <<>>)
      [] Routed(srv, r) = "projects" ->
           Answer(listed.status,
                  BodyOut("projects", <<>>, Len(listed.list), JsonNull,
                          JsonNull, JsonNull), <<>>)
      [] Routed(srv, r) = "complete" /\ srv # "earlier" -> aiComplete(e, r)
      [] Routed(srv, r) = "complete" /\ srv = "earlier" ->
           IF limit.ok THEN earlierAiComplete(e, r)
           ELSE Raise(HTTPException(429, <<"Too many requests">>), <<>>)
      [] Routed(srv, r) = "gemini" /\ srv # "earlier" ->
           aiGemini(readPromptFromBody(r.body), e, r)
      [] Routed(srv, r) = "gemini" /\ srv = "earlier" ->
           aiGemini(earlierReadPromptFromBody(r.body), e, r)
      [] Routed(srv, r) = "search" -> search(e, r)
      [] Routed(srv, r) = "media" /\ srv # "earlier" -> mediaPexels(e, r)
      [] Routed(srv, r) = "media" /\ srv = "earlier" ->
           earlierMediaPexels(e, r)
      \* no route: the framework's 404
      [] OTHER -> Answer(404, NoBodyOut, <<>>)

\* The response to a request whose handler ended as h: a thrown exception
\* goes through the server's error handler, and the headers of the
\* middleware are on every response.
Respond(srv, e, r, h) ==
    [status |-> IF ~h.thrown THEN h.status
                ELSE IF srv = "earlier" THEN earlierOnError(h.exc).status
                ELSE onError(h.exc).status,
     error |-> IF ~h.thrown THEN <<>>
               ELSE IF srv = "earlier" THEN earlierOnError(h.exc).error
               ELSE onError(h.exc).error,
     headers |-> IF srv = "earlier" THEN earlierCors(e, r.origin)
                 ELSE corsMiddleware(e, r.origin),
     body |-> h.body, calls |-> h.calls]

\* The application of a server file on one request: the response, and the
\* rate limiter's table after it.  store is the projects table, t the
\* process clock.
App(srv, e, buckets, t, store, r) ==
    [response |->
        Respond(srv, e, r,
                Dispatch(srv, e, r, enforceRateLimit(buckets, << >>, t),
                         Handle(srv, store, 0, GetRequest, t, t))),
     buckets |-> IF srv = "earlier" /\ Routed(srv, r) = "complete"
                 THEN enforceRateLimit(buckets, << >>, t).buckets
                 ELSE buckets]

-----------------------------------------------------------------------------
(* The HTTP shell as a state machine *)

NoShellReq == Plain("NONE", "", NoOrigin)
NoShellResp ==
    [status |-> 0, error |-> <<>>, headers |-> CorsHeaders(NoHeader, NoHeader),
     body |-> NoBodyOut, calls |-> <<>>]

ShellIdle ==
    /\ server = "embedded"
    /\ env = [cors |-> Unset, keys |-> Credentials]
    /\ hreq = NoShellReq /\ hresp = NoShellResp

ShellInit ==
    /\ server \in Servers
    /\ env \in Envs
    /\ hreq = NoShellReq
    /\ hresp = NoShellResp

\* One request, handled to completion by the running server.
ShellServe(r) ==
    \E res \in {App(server, env, rateLimitBuckets, rlNow, projects, r)} :
       /\ hreq' = r
       /\ hresp' = res.response
       /\ rateLimitBuckets' = res.buckets
       /\ UNCHANGED <<server, env, rlNow, admitted, rlResp>>

\* Prompt requests: a body that is refused, or the accepted body with each
\* outcome of the outbound call.
PromptInputs(outcomes) ==
    { [body |-> b, upstream |-> u] :
        b \in {MalformedPrompt, NullPrompt, NoPrompt},
        u \in {x \in outcomes : x.kind = "unreachable"} }
    \cup { [body |-> GoodPrompt, upstream |-> u] : u \in outcomes }

\* Query requests: an absent or blank query, or a query with each outcome.
QueryInputs(outcomes) ==
    { [q |-> v, upstream |-> u] :
        v \in {AbsentParam, Param(<<" ">>)},
        u \in {x \in outcomes : x.kind = "unreachable"} }
    \cup { [q |-> Param(<<" ", "k">>), upstream |-> u] : u \in outcomes }

\* page and per_page of the media requests: absent, negative, not
\* numeric, zero, fractional, and two positive integers.
Paging ==
    { [page |-> AbsentParam, per_page |-> AbsentParam],
      [page |-> Param(<<"-", "1">>), per_page |-> Param(<<"a", "b", "c">>)],
      [page |-> Param(<<"a", "b", "c">>), per_page |-> Param(<<"0">>)],
      [page |-> Param(<<"0">>), per_page |-> Param(<<"2", ".", "5">>)],
      [page |-> Param(<<"2">>), per_page |-> Param(<<"5">>)] }

BlankCompletion == CompletionPayload("none", NotArr, NotArr)
BlankGemini == GeminiPayload("none", NotArr)
BlankSearch == SearchPayload("none", NotArr)
BlankPexels == PexelsPayload("none", NotArr, Undefined, Undefined, Undefined)

Health ==
    \E o \in Origins : ShellServe(Plain("GET", "/health", o))

Preflight ==
    \E o \in Origins, p \in Paths : ShellServe(Plain("OPTIONS", p, o))

ListProjects ==
    \E o \in Origins : ShellServe(Plain("GET", "/projects", o))

Unrouted ==
    \E o \in Origins, m \in {"GET", "DELETE"} :
        ShellServe(Plain(m, "/nope", o))

\* The Origin header varies on the requests that end before a payload is
\* read; the others are sent without one.
OriginsFor(i) ==
    IF i.upstream.kind = "unreachable" THEN Origins ELSE {NoOrigin}

Complete ==
    \E i \in PromptInputs(Outcomes(CompletionPayloads, BlankCompletion)) :
      \E o \in OriginsFor(i) :
        ShellServe(Request("POST", "/ai/complete", o, i.body, AbsentParam,
                           AbsentParam, AbsentParam, i.upstream))

Gemini ==
    \E i \in PromptInputs(Outcomes(GeminiPayloads, BlankGemini)) :
      \E o \in OriginsFor(i) :
        ShellServe(Request("POST", "/ai/gemini", o, i.body, AbsentParam,
                           AbsentParam, AbsentParam, i.upstream))

Search ==
    \E i \in QueryInputs(Outcomes(SearchPayloads, BlankSearch)) :
      \E o \in OriginsFor(i) :
        ShellServe(Request("GET", "/search", o, NoPromptBody, i.q,
                           AbsentParam, AbsentParam, i.upstream))

\* Media requests: every paging with the payloads that are objects, and
\* the other outcomes with one paging.
MediaInputs ==
    { [q |-> i.q, page |-> g.page, per_page |-> g.per_page,
       upstream |-> i.upstream] :
        g \in Paging,
        i \in { x \in QueryInputs(Outcomes(PexelsPayloads, BlankPexels)) :
                  x.upstream.payload.k = "object" } }
    \cup { [q |-> i.q, page |-> Param(<<"-", "1">>),
            per_page |-> Param(<<"a", "b", "c">>), upstream |-> i.upstream] :
              i \in QueryInputs(Outcomes(PexelsPayloads, BlankPexels)) }

Media ==
    \E i \in MediaInputs :
      \E o \in OriginsFor(i) :
        ShellServe(Request("GET", "/media/pexels", o, NoPromptBody, i.q,
                           i.page, i.per_page, i.upstream))

-----------------------------------------------------------------------------
(* The projects page of the client: React state and requests in flight *)

\* `${id}` in a request path: the decimal digits of a non-negative integer.
DigitChars == <<"0", "1", "2", "3", "4", "5", "6", "7", "8", "9">>

RECURSIVE NumberText(_)
NumberText(n) ==
    IF n < 10 THEN <<DigitChars[n + 1]>>
    ELSE NumberText(n \div 10) \o <<DigitChars[(n % 10) + 1]>>

\* useState<string | null>(null) and useState<number | null>(null): the
\* backend hands out ids from 1, so 0 stands for the null pendingId.
NoError == ""
NoPending == 0

\* A request of the page from fetch() until its continuation has run: sent,
\* then answered by the backend, then delivered.
Sent(n, kind, id, name) ==
    [n |-> n, kind |-> kind, id |-> id, name |-> name, stage |-> "sent",
     status |-> 0, row |-> NoRow, list |-> <<>>]

Answered(q, r) ==
    [q EXCEPT !.stage = "answered", !.status = r.status, !.row = r.row,
              !.list = r.list]

\* The HTTP request that listProjects, createProject, updateProject and
\* deleteProject build, with the outcome o of the backend's storage call.
ClientRequest(q, o) ==
    CASE q.kind = "list" ->
           [method |-> "GET", id |-> NoId, body |-> NoBody,
            fail |-> o.fail, err |-> o.err]
      [] q.kind = "create" ->
           [method |-> "POST", id |-> NoId, body |-> Obj(JStr(q.name)),
            fail |-> o.fail, err |-> o.err]
      [] q.kind = "rename" ->
           [method |-> "PATCH", id |-> NumberText(q.id),
            body |-> Obj(JStr(q.name)), fail |-> o.fail, err |-> o.err]
      [] q.kind = "delete" ->
           [method |-> "DELETE", id |-> NumberText(q.id), body |-> NoBody,
            fail |-> o.fail, err |-> o.err]

\* response.ok: request() throws an ApiError for every other status.
ResponseOk(q) == q.status >= 200 /\ q.status <= 299

\* [...].sort((a, b) => a.id - b.id): a stable sort by id.
InsertById(sorted, x) ==
    LET k == Cardinality({i \in 1..Len(sorted) : sorted[i].id <= x.id})
    IN SubSeq(sorted, 1, k) \o <<x>> \o SubSeq(sorted, k + 1, Len(sorted))

RECURSIVE SortById(_)
SortById(list) ==
    IF list = <<>> THEN <<>>
    ELSE InsertById(SortById(SubSeq(list, 1, Len(list) - 1)),
                    list[Len(list)])

\* prev.map((item) => item.id === id ? updated : item)
MapReplace(list, id, updated) ==
    [i \in 1..Len(list) |-> IF list[i].id = id THEN updated ELSE list[i]]

\* prev.filter((item) => item.id !== id)
RECURSIVE FilterOut(_, _)
FilterOut(list, id) ==
    IF list = <<>> THEN <<>>
    ELSE IF Head(list).id = id THEN FilterOut(Tail(list), id)
    ELSE <<Head(list)>> \o FilterOut(Tail(list), id)

\* State of ProjectsPage before it is mounted.
NoUi ==
    [projects |-> <<>>, loading |-> TRUE, error |-> NoError,
     creating |-> FALSE, pendingId |-> NoPending]

\* History of the page: requests issued so far, whether one of them failed,
\* and whether one was issued after the initial list had finished loading.
NoHist == [issued |-> 0, failed |-> FALSE, late |-> FALSE]

\* fetchProjects up to its await: setLoading(true), setError(null).
fetchProjectsStart(u) == [u EXCEPT !.loading = TRUE, !.error = NoError]

\* fetchProjects after its await.
fetchProjectsSettle(u, q) ==
    IF ResponseOk(q)
    THEN [u EXCEPT !.projects = q.list, !.loading = FALSE]
    ELSE [u EXCEPT !.error = "Failed to load projects.", !.loading = FALSE]

\* handleCreate after its await.
handleCreateSettle(u, q) ==
    IF ResponseOk(q)
    THEN [u EXCEPT !.projects = SortById(Append(u.projects, q.row)),
                   !.creating = FALSE]
    ELSE [u EXCEPT !.error = "Unable to create project.",
                   !.creating = FALSE]

\* handleRename after its await.
handleRenameSettle(u, q) ==
    IF ResponseOk(q)
    THEN [u EXCEPT !.projects = MapReplace(u.projects, q.id, q.row),
                   !.pendingId = NoPending]
    ELSE [u EXCEPT !.error = "Unable to rename project.",
                   !.pendingId = NoPending]

\* handleDelete after its await.
handleDeleteSettle(u, q) ==
    IF ResponseOk(q)
    THEN [u EXCEPT !.projects = FilterOut(u.projects, q.id),
                   !.pendingId = NoPending]
    ELSE [u EXCEPT !.error = "Unable to delete project.",
                   !.pendingId = NoPending]

Settle(u, q) ==
    CASE q.kind = "list" -> fetchProjectsSettle(u, q)
      [] q.kind = "create" -> handleCreateSettle(u, q)
      [] q.kind = "rename" -> handleRenameSettle(u, q)
      [] q.kind = "delete" -> handleDeleteSettle(u, q)

\* Texts typed into the form and into the rename prompt; the prompt can
\* also be cancelled (null).
FormTexts == { <<" ">>, <<"a">>, <<" ", "b", " ">> }
PromptAnswers ==
    {[cancelled |-> TRUE, text |-> <<>>]}
        \cup {[cancelled |-> FALSE, text |-> t] : t \in FormTexts}

\* Names of the rows the table holds when the page is opened.
SeedNames == << <<"a">>, <<"b">> >>

\* One accepted POST /projects on the table t = [store, seq].
SeedStep(t, name) ==
    LET res == Handle("embedded", t.store, t.seq,
                      [method |-> "POST", id |-> NoId,
                       body |-> Obj(JStr(name)), fail |-> FALSE,
                       err |-> NoErr], 0, 0)
    IN [store |-> res.store, seq |-> res.seq]

\* The table after one accepted POST for each of the names.
RECURSIVE Seeded(_)
Seeded(names) ==
    IF names = <<>> THEN [store |-> {}, seq |-> 0]
    ELSE \* the table before the last POST is passed on as a value
         SeedStep(Seeded(SubSeq(names, 1, Len(names) - 1)),
                  names[Len(names)])

ClientIdle == ui = NoUi /\ inflight = {} /\ hist = NoHist

\* The page has been mounted: the effect has called fetchProjects and the
\* list request is on its way.  The backend holds zero to two rows.
ClientInit ==
    /\ variant = "embedded" /\ skew = 0 /\ now = 0
    /\ \E k \in 0..Len(SeedNames) :
         \E t \in {Seeded(SubSeq(SeedNames, 1, k))} :
            /\ projects = t.store
            /\ seq = t.seq
    /\ everIds = {} /\ req = NoReq /\ resp = NoResp /\ before = {}
    /\ ui = fetchProjectsStart(NoUi)
    /\ inflight = {Sent(0, "list", NoPending, <<>>)}
    /\ hist = NoHist

\* A request leaves the page.
Issue(u, kind, id, name) ==
    /\ hist.issued < MaxClicks
    /\ ui' = u
    /\ inflight' = inflight \cup {Sent(hist.issued + 1, kind, id, name)}
    /\ hist' = [hist EXCEPT !.issued = @ + 1,
                            !.late = @ \/ ~ui.loading]
    /\ UNCHANGED projVars

\* The form is submitted: its button is enabled while no create is in
\* progress and the trimmed text is not empty.
handleCreate ==
    \E text \in FormTexts :
       /\ ~ui.creating
       /\ Trim(text) # <<>>
       /\ Issue([ui EXCEPT !.creating = TRUE, !.error = NoError],
                "create", NoPending, Trim(text))

\* Rename is clicked on a listed project whose buttons are enabled.
handleRename ==
    \E i \in 1..Len(ui.projects), answer \in PromptAnswers :
       /\ ~ui.loading
       /\ ui.pendingId # ui.projects[i].id
       /\ ~answer.cancelled
       /\ Trim(answer.text) # <<>>
       /\ Trim(answer.text) # ui.projects[i].name
       /\ Issue([ui EXCEPT !.pendingId = ui.projects[i].id,
                           !.error = NoError],
                "rename", ui.projects[i].id, Trim(answer.text))

\* Delete is clicked on a listed project whose buttons are enabled.
handleDelete ==
    \E i \in 1..Len(ui.projects), confirmed \in BOOLEAN :
       /\ ~ui.loading
       /\ ui.pendingId # ui.projects[i].id
       /\ confirmed
       /\ Issue([ui EXCEPT !.pendingId = ui.projects[i].id,
                           !.error = NoError],
                "delete", ui.projects[i].id, <<>>)

\* The backend handles one of the requests on their way, in any order.
Backend ==
    \E q \in inflight, o \in StorageOutcomes :
       /\ q.stage = "sent"
       /\ Serve(ClientRequest(q, o))
       /\ inflight' = (inflight \ {q}) \cup {Answered(q, resp')}
       /\ UNCHANGED <<ui, hist>>

\* A response reaches the page and the rest of its handler runs.
Deliver ==
    \E q \in inflight :
       /\ q.stage = "answered"
       /\ ui' = Settle(ui, q)
       /\ inflight' = inflight \ {q}
       /\ hist' = [hist EXCEPT !.failed = @ \/ ~ResponseOk(q)]
       /\ UNCHANGED projVars

-----------------------------------------------------------------------------
(* Properties of the client page (ClientSpec) *)

\* C28: for every project, whenever a rename or delete request for that
\* project is in flight, its Rename and Delete buttons are disabled
\* (pendingId equals its id), also when requests for two different
\* projects overlap.
C28_PendingProjectIsDisabled ==
    \A q \in inflight :
        q.kind \in {"rename", "delete"} => ui.pendingId = q.id

\* C29: once all requests have completed without error, the local list
\* equals the server's list (each project once, by ascending id), for the
\* requests issued while the initial list was loading.
C29_LocalListEqualsServerList ==
    (inflight = {} /\ ~hist.failed /\ ~hist.late /\ hist.issued > 0)
        => ui.projects = SortAsc(projects)

-----------------------------------------------------------------------------
(* Specifications: one per subsystem; the other subsystems stay idle *)

Init == ProjInit /\ RateIdle /\ MigIdle /\ ShellIdle /\ ClientIdle

Next ==
    \/ Get /\ UNCHANGED <<rateVars, migVars, shellVars, clientVars>>
    \/ Post /\ UNCHANGED <<rateVars, migVars, shellVars, clientVars>>
    \/ Patch /\ UNCHANGED <<rateVars, migVars, shellVars, clientVars>>
    \/ Delete /\ UNCHANGED <<rateVars, migVars, shellVars, clientVars>>
    \/ Tick /\ UNCHANGED <<rateVars, migVars, shellVars, clientVars>>

Spec == Init /\ [][Next]_vars

RateLimitInit == ProjIdle /\ RateInit /\ MigIdle /\ ShellIdle /\ ClientIdle

RateLimitNext ==
    \/ AiComplete /\ UNCHANGED <<projVars, migVars, shellVars, clientVars>>
    \/ Advance /\ UNCHANGED <<projVars, migVars, shellVars, clientVars>>

RateLimitSpec == RateLimitInit /\ [][RateLimitNext]_vars

MigrationInit == ProjIdle /\ RateIdle /\ MigInit /\ ShellIdle /\ ClientIdle

MigrationNext ==
    \/ StartServer /\ UNCHANGED <<projVars, rateVars, shellVars, clientVars>>
    \/ StartMigrate /\ UNCHANGED <<projVars, rateVars, shellVars, clientVars>>
    \/ ImportRoutes /\ UNCHANGED <<projVars, rateVars, shellVars, clientVars>>
    \/ ServerGetDatabase /\ UNCHANGED <<projVars, rateVars, shellVars, clientVars>>
    \/ ServeRequests /\ UNCHANGED <<projVars, rateVars, shellVars, clientVars>>
    \/ MigrateScript /\ UNCHANGED <<projVars, rateVars, shellVars, clientVars>>
    \/ Stop /\ UNCHANGED <<projVars, rateVars, shellVars, clientVars>>
    \/ AddFile /\ UNCHANGED <<projVars, rateVars, shellVars, clientVars>>
    \/ MakeDir /\ UNCHANGED <<projVars, rateVars, shellVars, clientVars>>

MigrationSpec == MigrationInit /\ [][MigrationNext]_vars

ShellSpecInit == ProjIdle /\ RateIdle /\ MigIdle /\ ShellInit /\ ClientIdle

ShellNext ==
    \/ Health /\ UNCHANGED <<projVars, migVars, clientVars>>
    \/ Preflight /\ UNCHANGED <<projVars, migVars, clientVars>>
    \/ ListProjects /\ UNCHANGED <<projVars, migVars, clientVars>>
    \/ Unrouted /\ UNCHANGED <<projVars, migVars, clientVars>>
    \/ Complete /\ UNCHANGED <<projVars, migVars, clientVars>>
    \/ Gemini /\ UNCHANGED <<projVars, migVars, clientVars>>
    \/ Search /\ UNCHANGED <<projVars, migVars, clientVars>>
    \/ Media /\ UNCHANGED <<projVars, migVars, clientVars>>

ShellSpec == ShellSpecInit /\ [][ShellNext]_vars

ClientSpecInit == ClientInit /\ RateIdle /\ MigIdle /\ ShellIdle

ClientNext ==
    \/ handleCreate /\ UNCHANGED <<rateVars, migVars, shellVars>>
    \/ handleRename /\ UNCHANGED <<rateVars, migVars, shellVars>>
    \/ handleDelete /\ UNCHANGED <<rateVars, migVars, shellVars>>
    \/ Backend /\ UNCHANGED <<rateVars, migVars, shellVars>>
    \/ Deliver /\ UNCHANGED <<rateVars, migVars, shellVars>>

ClientSpec == ClientSpecInit /\ [][ClientNext]_vars

-----------------------------------------------------------------------------
(* Properties of the rate limiter (RateLimitSpec) *)

Count(sq, P(_)) == Cardinality({i \in 1..Len(sq) : P(sq[i])})

Log(k) == IF k \in DOMAIN admitted THEN admitted[k] ELSE <<>>

\* Requests of k admitted in the interval of RATE_LIMIT_WINDOW_MS
\* milliseconds that ends at the current instant.
AdmittedRolling(k) ==
    Count(Log(k), LAMBDA a : a > rlNow - RATE_LIMIT_WINDOW_MS)

\* Requests of k admitted since the window of its bucket was opened.
AdmittedInWindow(k) ==
    Count(Log(k), LAMBDA a : a >= rateLimitBuckets[k].windowStart)

WindowOpen(k) ==
    /\ k \in DOMAIN rateLimitBuckets
    /\ rlNow - rateLimitBuckets[k].windowStart <= RATE_LIMIT_WINDOW_MS

\* C1 as stated: for every caller key, at most RATE_LIMIT_MAX_REQUESTS
\* requests are admitted in any rolling interval of 60 000 ms (every such
\* interval is the one that ends at the instant of its last request).
C1_RollingLimit ==
    \A k \in DOMAIN admitted : AdmittedRolling(k) <= RATE_LIMIT_MAX_REQUESTS

\* C1 as amended: for every caller key, at most RATE_LIMIT_MAX_REQUESTS
\* requests are admitted in one window of its bucket (from the request that
\* opened the window until a request arrives more than 60 000 ms after it),
\* and a request is answered 429 only when that many have been admitted in
\* the window, which stays so while the window is open.
C1_FixedWindowLimit ==
    /\ \A k \in DOMAIN rateLimitBuckets :
          AdmittedInWindow(k) <= RATE_LIMIT_MAX_REQUESTS
    /\ (rlResp.status = 429 /\ WindowOpen(rlResp.identifier))
          => AdmittedInWindow(rlResp.identifier) = RATE_LIMIT_MAX_REQUESTS

\* A caller that used up its window has just been answered 429 while
\* another caller has been admitted.
C1_Witness ==
    /\ rlResp.status = 429
    /\ WindowOpen(rlResp.identifier)
    /\ AdmittedInWindow(rlResp.identifier) = RATE_LIMIT_MAX_REQUESTS
    /\ \E k \in DOMAIN rateLimitBuckets : k # rlResp.identifier

\* C26 as stated, for the request of each caller arriving in the current
\* state: if it is answered 429 no bucket changes; if it is admitted no
\* bucket but the caller's changes; and if the caller was last answered 429
\* and 60 000 ms or more have passed since its bucket's windowStart, the
\* request is admitted and the bucket restarts with count 1.
C26_LimiterFrame ==
    \A headers \in HeaderSets :
        \E lim \in {enforceRateLimit(rateLimitBuckets, headers, rlNow)} :
        \E id \in {Identifier(headers)} :
           /\ ~lim.ok => lim.buckets = rateLimitBuckets
           /\ lim.ok
                 => /\ DOMAIN lim.buckets = DOMAIN rateLimitBuckets \cup {id}
                    /\ \A k \in DOMAIN rateLimitBuckets \ {id} :
                          lim.buckets[k] = rateLimitBuckets[k]
           /\ (/\ rlResp.status = 429 /\ rlResp.identifier = id
               /\ rlNow - rateLimitBuckets[id].windowStart
                     >= RATE_LIMIT_WINDOW_MS)
                 => /\ lim.ok
                    /\ lim.buckets[id] = [count |-> 1, windowStart |-> rlNow]

\* The count of a caller's bucket; a caller without a bucket has used
\* nothing.
CountOf(buckets, k) == IF k \in DOMAIN buckets THEN buckets[k].count ELSE 0

\* C27 as stated: a request to the rate-limited POST /ai/complete that is
\* answered 400 or 500 without an upstream call leaves the count of the
\* caller's bucket as it was.
C27_OnlyUpstreamCallsCount ==
    [][(/\ rlNow' = rlNow
        /\ rlResp'.status \in {400, 500} /\ ~rlResp'.called)
          => CountOf(rateLimitBuckets', rlResp'.identifier)
                = CountOf(rateLimitBuckets, rlResp'.identifier)]_vars

\* C27 as amended: every request that is not answered 429 counts against
\* the caller's quota, whether or not it leads to an upstream call: after
\* it the count of the caller's bucket is one more than before, or 1 when
\* the request opened a window; a request answered 429 changes no bucket.
C27_EveryAdmittedRequestCounts ==
    [][rlNow' = rlNow
          => IF rlResp'.status = 429
             THEN rateLimitBuckets' = rateLimitBuckets
             ELSE \/ CountOf(rateLimitBuckets', rlResp'.identifier)
                       = CountOf(rateLimitBuckets, rlResp'.identifier) + 1
                  \/ /\ rateLimitBuckets'[rlResp'.identifier]
                          = [count |-> 1, windowStart |-> rlNow]
                     /\ rlNow - rateLimitBuckets[rlResp'.identifier]
                           .windowStart > RATE_LIMIT_WINDOW_MS]_vars

\* A request answered 400 without an upstream call has used the last
\* place of the caller's window.
C27_Witness ==
    /\ rlResp.status = 400 /\ ~rlResp.called
    /\ rateLimitBuckets[rlResp.identifier]
          = [count |-> RATE_LIMIT_MAX_REQUESTS, windowStart |-> rlNow]

-----------------------------------------------------------------------------
(* Properties of the projects resource (Spec) *)

\* The list GET /projects returns for a table, in the deployed variant.
Listed(store) == Handle(variant, store, seq, GetRequest, now, now).list

ListedIds(store) == {r.id : r \in Range(Listed(store))}

\* The path parameter is the decimal representation of a positive integer.
IsDecimalId(p) == p # <<>> /\ DigitPrefix(p) = p /\ DecimalValue(p) > 0

\* Ids of rows that existed at some time before req and were deleted.
DeletedBefore == everIds \ Ids(before)

\* C2: a POST /projects that succeeds makes the list of GET /projects
\* longer by exactly one row, and the id of the new row is the id of no row
\* that existed before, deleted rows included.
C2_CreateAddsOneFreshRow ==
    (req.method = "POST" /\ resp.status = 201)
        => /\ Len(Listed(projects)) = Len(Listed(before)) + 1
           /\ resp.row.id \in ListedIds(projects)
           /\ resp.row.id \notin everIds

\* A create that succeeded after a row had been deleted.
C2_Witness ==
    /\ req.method = "POST" /\ resp.status = 201
    /\ DeletedBefore # {}
    /\ Len(Listed(projects)) = Len(Listed(before)) + 1

\* C3 as stated: in every variant, DELETE of an existing id answers 204 and
\* the id is not listed afterwards, and DELETE of an id that was deleted
\* before answers 404 (storage calls succeeding).
C3_DeleteThenNotFound ==
    (req.method = "DELETE" /\ ~req.fail /\ IsDecimalId(req.id))
        => LET id == DecimalValue(req.id)
           IN /\ id \in Ids(before)
                    => (resp.status = 204 /\ id \notin ListedIds(projects))
              /\ id \in DeletedBefore => resp.status = 404


\* The row of the table with the given id, as GET /projects lists it.
ListedRow(store, id) == RowOf(Range(Listed(store)), id)

\* C4 as stated: after a PATCH that succeeded, the listed row has the new
\* name and an updated_at strictly greater than the one it had before, also
\* when no clock tick lies between the rename and the previous write.
C4_RenameAdvancesUpdatedAt ==
    (req.method = "PATCH" /\ resp.status = 200
       /\ variant \in {"embedded", "hosted"})
        => LET old == RowOf(before, resp.row.id)
               new == ListedRow(projects, resp.row.id)
           IN /\ new.name = Trim(req.body.name.v)
              /\ new.updated_at > old.updated_at

\* C5 as stated: PATCH with a decimal id that matches no row answers 404
\* whatever the body is, and leaves the table as it was.
C5_PatchUnknownIdIs404 ==
    (req.method = "PATCH" /\ ~req.fail /\ IsDecimalId(req.id)
       /\ DecimalValue(req.id) \notin Ids(before))
        => (resp.status = 404 /\ projects = before)

\* The body is valid JSON and carries no name, a name that is not a string,
\* or a name that is empty after trimming.
InvalidNameBody(body) ==
    /\ body.k \in {"null", "scalar", "object"}
    /\ \/ body.name.t # "string"
       \/ Trim(body.name.v) = <<>>

\* C6 as stated: POST with such a body (an empty object and null included)
\* answers 400 and leaves the table as it was.
C6_PostInvalidNameIs400 ==
    (req.method = "POST" /\ InvalidNameBody(req.body))
        => (resp.status = 400 /\ projects = before)

\* C7: POST with a string name that is non-empty after trimming, the
\* storage call succeeding, answers 201 with the stored row: its name is
\* the trimmed name, its id is positive, its created_at is its updated_at.
C7_CreateReturnsStoredRow ==
    (req.method = "POST" /\ ~req.fail /\ req.body.k = "object"
       /\ req.body.name.t = "string" /\ Trim(req.body.name.v) # <<>>)
        => /\ resp.status = 201
           /\ resp.row \in projects
           /\ resp.row \notin before
           /\ resp.row.name = Trim(req.body.name.v)
           /\ resp.row.id \in Nat \ {0}
           /\ resp.row.created_at = resp.row.updated_at

\* A name sent with surrounding blanks was stored, after the clock moved.
C7_Witness ==
    /\ req.method = "POST" /\ resp.status = 201
    /\ req.body.name.v # Trim(req.body.name.v)
    /\ resp.row.name = Trim(req.body.name.v)
    /\ resp.row \in projects
    /\ resp.row.created_at > 0

\* C10 as stated: every stored project has updated_at >= created_at, in
\* the embedded and in the hosted variant.
C10_UpdatedNotBeforeCreated ==
    \A r \in projects : r.updated_at >= r.created_at

\* C11: no stored project has a name that is empty or made of blanks only,
\* and every stored name is its own trimmed form, whatever POST and PATCH
\* requests have been served, in every variant.
C11_StoredNamesTrimmed ==
    \A r \in projects :
        /\ r.name # <<>>
        /\ Range(r.name) \ WhiteSpace # {}
        /\ Trim(r.name) = r.name

\* A rename sent with surrounding blanks was stored by the earlier router.
C11_Witness ==
    /\ variant = "earlier"
    /\ req.method = "PATCH" /\ resp.status = 200
    /\ req.body.name = JStr(<<" ", "b", " ">>)
    /\ RowOf(projects, resp.row.id).name = <<"b">>

\* Every stored project is in the list exactly once.
ListsEveryRowOnce(list, store) ==
    /\ Range(list) = store
    /\ Len(list) = Cardinality(store)

StrictlyAscending(list) ==
    \A i, j \in 1..Len(list) : i < j => list[i].id < list[j].id

StrictlyDescending(list) ==
    \A i, j \in 1..Len(list) : i < j => list[i].id > list[j].id

\* C12 as stated: GET /projects answers every stored project exactly once,
\* in strictly ascending order of id, in every variant.
C12_ListAscendingEverywhere ==
    (req.method = "GET" /\ resp.status = 200)
        => /\ ListsEveryRowOnce(resp.list, projects)
           /\ StrictlyAscending(resp.list)

\* C12 as amended: GET /projects answers every stored project exactly once;
\* the order is strictly ascending by id in the embedded and in the hosted
\* variant and strictly descending by id in the earlier hosted router.
C12_ListOrderedPerVariant ==
    (req.method = "GET" /\ resp.status = 200)
        => /\ ListsEveryRowOnce(resp.list, projects)
           /\ variant \in {"embedded", "hosted"}
                 => StrictlyAscending(resp.list)
           /\ variant = "earlier" => StrictlyDescending(resp.list)

\* Two projects were listed by the embedded variant after a third request.
C12_Witness ==
    /\ req.method = "GET" /\ resp.status = 200
    /\ variant = "embedded"
    /\ Len(resp.list) = 2
    /\ resp.list[1].id < resp.list[2].id

\* C16 as stated: PATCH and DELETE with a path id that is not the decimal
\* representation of a positive integer answer 400, and the storage is not
\* called (the table stays as it was and no storage failure can show).
C16_BadPathIdIs400 ==
    (req.method \in {"PATCH", "DELETE"} /\ ~IsDecimalId(req.id))
        => (resp.status = 400 /\ projects = before)

\* C17 as stated: PATCH of an existing id with a JSON object that has no
\* name, a name that is not a string, or a name that is empty after
\* trimming answers 400 and leaves the row as it was.
C17_PatchInvalidNameIs400 ==
    (req.method = "PATCH" /\ IsDecimalId(req.id)
       /\ DecimalValue(req.id) \in Ids(before)
       /\ req.body.k = "object"
       /\ (req.body.name.t # "string" \/ Trim(req.body.name.v) = <<>>))
        => (resp.status = 400 /\ projects = before)

\* The answer to req had the storage failed with the text e.
AnswerToFailure(e) ==
    Handle(variant, before, seq, [req EXCEPT !.err = e], now,
           ApiTime(now, skew))

\* C18 as stated: in the embedded and in the hosted variant, a request
\* whose storage call fails is answered 500 with a message that is the
\* same whatever the text of the storage error is.
C18_StorageFailureIsGeneric500 ==
    (req.fail /\ variant \in {"embedded", "hosted"})
        => /\ resp.status = 500
           /\ \A e \in ErrTexts : AnswerToFailure(e).error = resp.error

\* C22: a PATCH answered 200 replaces one row of the table by the row it
\* returns, which has the id and the created_at of the row it replaces
\* (the id of the path, when that is a decimal number), and leaves every
\* other row as it was; a DELETE answered 204 adds no row, changes none,
\* and removes at most the row with the id of the path.
C22_PatchDeleteFrame ==
    /\ (req.method = "PATCH" /\ resp.status = 200)
          => \E old \in before :
                /\ old.id = resp.row.id
                /\ old.created_at = resp.row.created_at
                /\ IsDecimalId(req.id) => old.id = DecimalValue(req.id)
                /\ projects = (before \ {old}) \cup {resp.row}
    /\ (req.method = "DELETE" /\ resp.status = 204)
          => /\ projects \subseteq before
             /\ Cardinality(before \ projects) <= 1
             /\ \A q \in before \ projects :
                   IsDecimalId(req.id) => q.id = DecimalValue(req.id)

\* One of two rows was renamed, after its creation time.
C22_Witness ==
    /\ req.method = "PATCH" /\ resp.status = 200
    /\ Cardinality(projects) = 2
    /\ \E old \in before :
          /\ old.id = resp.row.id
          /\ old.name # resp.row.name
          /\ old.created_at < now

\* C24 as stated: the three variants, given the table the deployed variant
\* had before a request and the same request, with a storage that does not
\* fail, answer the same status code, and to a GET the same set of
\* projects.
C24_VariantsAgree ==
    (req.method # "NONE" /\ ~req.fail)
        => \A v \in Variants :
              \E o \in {Handle(v, before, 0, req, now, ApiTime(now, skew))} :
                 /\ o.status = resp.status
                 /\ req.method = "GET" => Range(o.list) = Range(resp.list)

-----------------------------------------------------------------------------
(* Properties of the migration runner (MigrationSpec) *)

\* Files of this process's run whose SQL threw.
FailedInRun == {f \in Range(proc.ran) : f \in proc.failing}

C9_FailedMigrationRollsBack ==
    FailedInRun # {}
        => /\ proc.pc = "crashed"
           /\ \A f \in FailedInRun :
                 /\ f = proc.ran[Len(proc.ran)]
                 /\ disk.state[f] = "none"
                 /\ f \notin disk.applied
           /\ \A i \in 1..(Len(proc.ran) - 1) :
                 /\ proc.ran[i] \in disk.applied
                 /\ disk.state[proc.ran[i]] = "all"

\* A run applied one file, failed on the next, and left a later one alone.
C9_Witness ==
    /\ proc.pc = "crashed"
    /\ Len(proc.ran) = 2
    /\ proc.ran[1] \in disk.applied
    /\ proc.ran[2] \in FailedInRun
    /\ \E g \in proc.seen :
          /\ LexLess(proc.ran[2], g)
          /\ g \notin disk.applied
          /\ g \notin Range(proc.ran)

\* C21: in one process a handle is constructed at most once, and not
\* before the first getDatabase call; the process holds a handle exactly
\* when one was constructed, so every call that returns, returns that one;
\* and no migration file is attempted twice by the process.
C21_HandleConstructedOnce ==
    /\ proc.opened <= 1
    /\ proc.instance <=> proc.opened = 1
    /\ proc.pc \in {"down", "boot"} => proc.opened = 0
    /\ proc.pc \in {"imported", "ready", "serving", "done"}
          => proc.opened = 1
    /\ \A i, j \in 1..Len(proc.ran) : proc.ran[i] = proc.ran[j] => i = j

\* Two calls of getDatabase have returned in a server process, the first
\* of which ran a migration.
C21_Witness ==
    /\ proc.pc = "ready" /\ proc.kind = "server"
    /\ proc.opened = 1 /\ proc.instance
    /\ Len(proc.ran) = 1

\* C25 as stated: a handle is returned only on a database on which every
\* .sql file present at construction has been applied; and in a process
\* whose first getDatabase call threw in applyMigrations, a later call of
\* getDatabase does not return a handle.
C25_HandleOnlyOnMigratedDatabase ==
    /\ proc.pc \in {"imported", "ready", "serving", "done"}
          => proc.seen \subseteq disk.applied
    /\ (proc.pc = "crashed" /\ FailedInRun # {})
          => \A failing \in SUBSET migrationFiles.files :
                ~getDatabase(proc.instance, disk, migrationFiles,
                             failing).returned

-----------------------------------------------------------------------------
(* Properties of the HTTP shell and of the proxy handlers (ShellSpec) *)

\* The route that served hreq.
ShellRoute == Routed(server, hreq)

\* hreq made its outbound call.
Called == hresp.calls # <<>>

HasText(parts) ==
    \E i \in 1..Len(parts) :
        parts[i].t = "string" /\ Trim(parts[i].v) # <<>>

HasItemText(items) ==
    \E i \in 1..Len(items) :
        items[i].content.isArray /\ HasText(items[i].content.items)

\* The payload of a success holds the field its handler is after: a text
\* part of output (or of choices), a text part of candidates, the value
\* array, the photos array.
FieldLocated(route, payload) ==
    /\ payload.k = "object"
    /\ CASE route = "complete" ->
              \/ payload.output.isArray /\ HasItemText(payload.output.items)
              \/ payload.choices.isArray /\ HasText(payload.choices.items)
         [] route = "gemini" ->
              payload.candidates.isArray
                  /\ HasItemText(payload.candidates.items)
         [] route = "search" -> payload.value.isArray
         [] route = "media" -> payload.photos.isArray

\* C13 as stated: for each proxy handler whose outbound call was made, a
\* non-success upstream status is answered 502 with the upstream error
\* body in the message, a success whose payload does not hold the expected
\* field is answered 500, and 200 is answered only when the field was
\* found.
C13_ProxyStatusFollowsUpstream ==
    (ShellRoute \in ProxyRoutes /\ Called)
        => /\ hreq.upstream.kind = "status"
                 => /\ hresp.status = 502
                    /\ hreq.upstream.text \in Range(hresp.error)
           /\ (hreq.upstream.kind = "ok"
                 /\ ~FieldLocated(ShellRoute, hreq.upstream.payload))
                 => hresp.status = 500
           /\ hresp.status = 200
                 => /\ hreq.upstream.kind = "ok"
                    /\ FieldLocated(ShellRoute, hreq.upstream.payload)

\* The body of the answer to an exception that is not an HTTPException.
GenericError == IF server = "earlier" THEN <<"server_error">>
                ELSE <<"Internal Server Error">>

\* C14: for each proxy handler, an outbound call that fails in fetch is
\* answered 502 with the failure reason in the message; a non-success
\* status is answered 502; a success whose body is not JSON is answered
\* 500 by the error handler; and every proxy request is answered with a
\* status, whatever the upstream does.
C14_UpstreamFailureIsAnswered ==
    ShellRoute \in ProxyRoutes
        => /\ hresp.status \in {200, 400, 429, 500, 502}
           /\ (Called /\ hreq.upstream.kind = "unreachable")
                 => /\ hresp.status = 502
                    /\ hreq.upstream.text \in Range(hresp.error)
           /\ (Called /\ hreq.upstream.kind = "status") => hresp.status = 502
           /\ (Called /\ hreq.upstream.kind = "ok"
                 /\ hreq.upstream.payload.k = "invalid")
                 => (hresp.status = 500 /\ hresp.error = GenericError)

\* The search API could not be reached and the request was answered 502.
C14_Witness ==
    /\ ShellRoute = "search" /\ Called
    /\ hreq.upstream.kind = "unreachable"
    /\ hresp.status = 502
    /\ hresp.error = <<"Failed to reach Azure AI Search: ", ReasonText>>

\* The parameter is the decimal representation of a positive integer.
IsPositiveIntegerParam(param) == param.present /\ IsDecimalId(param.v)

\* C15 as stated: in both media handlers, a page (per_page) that is absent,
\* not numeric or not a positive integer is replaced by 1 (10): that is the
\* value sent upstream, and the value of page (per_page) in the response
\* when the upstream payload has none.
C15_PagingFallsBackToDefault ==
    (ShellRoute = "media" /\ Called)
        => /\ ~IsPositiveIntegerParam(hreq.page)
                 => /\ hresp.calls[1].page = 1
                    /\ (hresp.status = 200
                          /\ ~IsNumber(hreq.upstream.payload.page))
                          => hresp.body.page = JsInt(1)
           /\ ~IsPositiveIntegerParam(hreq.per_page)
                 => /\ hresp.calls[1].per_page = 10
                    /\ (hresp.status = 200
                          /\ ~IsNumber(hreq.upstream.payload.per_page))
                          => hresp.body.per_page = JsInt(10)

\* C19 as stated: every response has an Access-Control-Allow-Origin
\* header, Access-Control-Allow-Methods equal to
\* GET,POST,PATCH,DELETE,OPTIONS and Vary: Origin, whatever the method, the
\* path and the Origin header of the request; and every OPTIONS request is
\* answered 204 without a handler being run.
C19_CorsOnEveryResponse ==
    hresp.status # 0
        => /\ hresp.headers["Access-Control-Allow-Origin"] # NoHeader
           /\ hresp.headers["Access-Control-Allow-Methods"] = AllowMethods
           /\ hresp.headers["Vary"] = "Origin"
           /\ hreq.method = "OPTIONS"
                 => /\ hresp.status = 204
                    /\ hresp.body = NoBodyOut
                    /\ hresp.calls = <<>>

\* The credentials a route reads.
Required(route) ==
    CASE route = "complete" -> {"OPENAI_API_KEY"}
      [] route = "gemini" -> {"GOOGLE_API_KEY"}
      [] route = "search" -> {"AZURE_SEARCH_ENDPOINT", "AZURE_SEARCH_API_KEY",
                              "AZURE_SEARCH_INDEX"}
      [] route = "media" -> {"PEXELS_API_KEY"}
      [] OTHER -> {}

\* hreq carries the input its route requires.
ValidInput ==
    IF ShellRoute \in {"complete", "gemini"}
    THEN /\ hreq.body.k = "object"
         /\ hreq.body.prompt.t = "string"
         /\ Trim(hreq.body.prompt.v) # <<>>
    ELSE hreq.q.present /\ Trim(hreq.q.v) # <<>>

\* The answer to hreq of the same server with every credential set.
AnswerWithAllCredentials ==
    App(server, [env EXCEPT !.keys = Credentials], << >>, rlNow, projects,
        hreq).response

C23_AtMostOneOutboundCall ==
    ShellRoute \in ProxyRoutes
        => /\ Len(hresp.calls) <= 1
           /\ hresp.status \in {400, 429} => hresp.calls = <<>>
           /\ (ValidInput /\ ~(Required(ShellRoute) \subseteq env.keys))
                 => hresp.calls = <<>>
           /\ hresp.status \in {200, 502} => Len(hresp.calls) = 1

\* The photo API could not be reached: one call, answered 502.
C23_Witness ==
    /\ ShellRoute = "media" /\ server = "hosted"
    /\ hreq.upstream.kind = "unreachable"
    /\ hresp.status = 502
    /\ Len(hresp.calls) = 1

====
